---- MODULE Spec2Model ----
(***************************************************************************)
(* Model of src/script.js: the page-interaction layer.                     *)
(*                                                                         *)
(* Part 1: the music player / team-card controller                         *)
(*         (musicPlayerController, script.js lines 309-464).               *)
(* Part 2: the typewriter effect (initTypewriter, script.js lines 88-128). *)
(*                                                                         *)
(* The browser is the environment: it delivers clicks, timers, animation   *)
(* frames, media events and the settlement of play() promises, one task at *)
(* a time (run to completion).                                             *)
(***************************************************************************)
EXTENDS Integers, Sequences, FiniteSets, Bags, TLC

\* ------------------------------------------------------------------ bounds
TrackLen == 2      \* duration of every track, in whole seconds
MaxReleased == 1   \* released Audio objects the host still works on, at once
MaxRaf == 2        \* pending requestAnimationFrame(updateProgress) callbacks
MaxTasks == 2      \* tasks the script has left with the host, at once:
                   \* pending setTimeout callbacks of the cards and queued
                   \* rejections of play() promises
MaxTexts == 2      \* strings in a typewriter's data-texts list
MaxEls == 2        \* .typewriter elements of a page
MaxAbsent == 2     \* elements the script looks up that a page lacks, at once
MaxMembers == 2    \* .member-text elements of a page
MaxSeconds == 3600 \* the longest time formatTime is given, in seconds
MaxPos == 8        \* the pointer's pageX and pageY are at most MaxPos px
MaxMoves == 1      \* pointer events the spotlight is given
NumChildren == 3   \* letters of a title, words of the motto
MaxBatches == 2    \* entries into the viewport whose timers are still pending

\* ------------------------------------------------------------- the page
Cards == {1, 2, 3}                 \* the .card elements
HasMusic(card) == card # 3         \* card 3 carries no data-music attribute
\* card.getAttribute("data-music"): a path, as its "/"-separated segments
MusicSrc(card) == <<"audio", "track" \o ToString(card) \o ".mp3">>
\* musicSrc.split("/").pop(), line 356
LastSegment(path) == path[Len(path)]
NoCard == 0                        \* null (activeCard)
NoAudio == [null |-> TRUE]         \* null (currentAudio)
NaN == -1                          \* Audio.duration before the metadata is loaded
\* Times (currentTime, duration, the argument of formatTime) are fixed-point
\* numbers: Unit of them make a second.  (value / 100) * duration of line
\* 460 is then exact for every whole value and every whole duration.
Unit == 100
Html == "html"                     \* text or value still as the markup gave it
PlayGlyph == "play"                \* the play triangle  (U+25B6)
PauseGlyph == "pause"              \* the pause bars     (U+23F8)
\* positions the range input is dragged to, among its values 0..100
SeekValues == {0, 25, 100}

VARIABLES
  cls,            \* cls[c]: the classes animate / showText / closing of card c
  showTimers,     \* showTimers[c]: pending 1200 ms "add show-text" timers
  closeTimers,    \* closeTimers[c]: pending 1000 ms "remove closing" timers
  currentAudio,   \* let currentAudio: null, or the Audio object it refers to
  released,       \* the Audio objects no longer referred to (a bag)
  isPlaying,      \* let isPlaying
  activeCard,     \* let activeCard
  btnText,        \* playPauseBtn.textContent
  hidden,         \* musicPlayer.classList.contains("hidden")
  songTitle,      \* songTitle.textContent
  progressMax,    \* progressBar.max
  progressValue,  \* progressBar.value
  timeDisplay,    \* timeDisplay.textContent
  rafPending,     \* pending requestAnimationFrame(updateProgress) callbacks
  aborts,         \* aborts[k]: queued host tasks that reject a play() promise
                  \* that pause() interrupted; k: caught (the promise of line
                  \* 351, with its .catch) or uncaught (that of line 451)
  taskError,      \* what the task that just ran raised: none, logged (a
                  \* rejection caught, console.error), unhandled (a promise
                  \* rejection without handler), TypeError (an exception)
  \* part 2: one .typewriter element
  texts,          \* const texts: the parsed data-texts, a list of strings
  loop,           \* const loop
  started,        \* whether initTypewriter has run for the element
  textIndex,      \* let textIndex (0-based, as in the code)
  charIndex,      \* let charIndex
  isTyping,       \* let isTyping
  textContent,    \* textDisplayEl.textContent
  tickDelay,      \* delay of the pending setTimeout(tick), 0 if none is pending
  pass,           \* history: the strings typed and deleted in this pass of the list
  \* part 3: the .typewriter elements of the page, at DOMContentLoaded
  nodeList,       \* the data-texts attribute of every .typewriter element
  el,             \* which of them is the element of part 2 (0: none)
  initRan,        \* the elements for which initTypewriter has returned
  loadError,      \* what the DOMContentLoaded listener raised
  domReady,       \* whether DOMContentLoaded has been dispatched
  \* part 4: the profile overlay and the .member-text elements
  memberVisible,  \* memberVisible[m]: .member-text m carries "visible"
  profile,        \* the texts of the overlay's fields and the model's src
  overlayActive,  \* overlay.classList.contains("active")
  overlayError,   \* what the listener that just ran raised
  \* part 5: the page the script is loaded into
  absent,         \* the elements the script looks up that the page lacks
  listeners,      \* the listeners and callbacks the script has registered
  scriptError,    \* what the evaluation of the script raised
  \* part 6: formatTime
  secs,           \* the argument of formatTime
  formatted,      \* what formatTime returned for it ("": not called yet)
  \* part 7: the spotlight (gridController)
  mouseX, mouseY, \* let mouseX, mouseY
  spotX, spotY,   \* let spotX, spotY
  radius,         \* let radius
  targetRadius,   \* let targetRadius
  moves,          \* how many pointer events handleMouse has been given
  \* part 8: one of the observers that cascade over child elements
  cascade,        \* which one: letterObserver, mvObserver or mottoObs
  reported,       \* what it was last told about its target: none, in, out
  targetActive,   \* the target carries "active" (mvObserver only)
  childClass,     \* childClass[i]: child i carries the cascade's class
  batches         \* per entry into the viewport, its timers still pending

playerVars == <<cls, showTimers, closeTimers, currentAudio, released,
                isPlaying, activeCard, btnText, hidden, songTitle,
                progressMax, progressValue, timeDisplay, rafPending,
                aborts, taskError>>
twVars == <<texts, loop, started, textIndex, charIndex, isTyping, textContent,
            tickDelay, pass>>
pageVars == <<nodeList, el, initRan, loadError, domReady>>
overlayVars == <<memberVisible, profile, overlayActive, overlayError>>
scriptVars == <<absent, listeners, scriptError>>
fmtVars == <<secs, formatted>>
spotVars == <<mouseX, mouseY, spotX, spotY, radius, targetRadius, moves>>
cascadeVars == <<cascade, reported, targetActive, childClass, batches>>
effectVars == <<fmtVars, spotVars, cascadeVars>>
vars == <<playerVars, twVars, pageVars, overlayVars, scriptVars, effectVars>>

\* ---------------------------------------------------------- formatTime
Pad2(n) == IF n < 10 THEN "0" \o ToString(n) ELSE ToString(n)

\* Mutant of formatTime: the seconds are not padded.
FormatTimeNoPad(seconds) ==
  IF seconds = NaN THEN "NaN:NaN"
  ELSE ToString(seconds \div (60 * Unit)) \o ":"
         \o ToString((seconds % (60 * Unit)) \div Unit)

\* formatTime(seconds), lines 10-14: Math.floor(seconds / 60) and
\* Math.floor(seconds % 60), padded; Math.floor(NaN) prints as "NaN".
FormatTime(seconds) ==
  IF seconds = NaN THEN "NaN:NaN"
  ELSE ToString(seconds \div (60 * Unit)) \o ":"
         \o Pad2((seconds % (60 * Unit)) \div Unit)

\* ------------------------------------------------- the player's state
\* The closure's variables and the DOM it writes, as one record.
State ==
  [cls |-> cls, showTimers |-> showTimers, closeTimers |-> closeTimers,
   currentAudio |-> currentAudio, released |-> released,
   isPlaying |-> isPlaying,
   activeCard |-> activeCard, btnText |-> btnText, hidden |-> hidden,
   songTitle |-> songTitle, progressMax |-> progressMax,
   progressValue |-> progressValue, timeDisplay |-> timeDisplay,
   rafPending |-> rafPending, aborts |-> aborts, taskError |-> taskError]

\* An Audio object: the element's paused flag and currentTime, whether
\* its metadata is loaded (duration known), whether the host has given up
\* loading its source (error), and the play() promise that is pending on
\* it: none, caught (returned at line 351, .catch attached) or uncaught
\* (returned at line 451, nothing attached).
NewAudio ==
  [paused |-> TRUE, time |-> 0, meta |-> FALSE, error |-> FALSE,
   promise |-> "none"]

Duration(a) == IF a.meta THEN TrackLen * Unit ELSE NaN

\* Whether play() on a starts playback: the host allows it (autoplay
\* policy) and the source of a has not failed to load.
Starts(a, allowed) == allowed /\ ~a.error

\* HTMLMediaElement.play(), its promise being of kind k.  If playback
\* starts, the element is no longer paused, playback that had ended
\* restarts from 0 and the promise returned is pending until the track
\* starts (then it is fulfilled, and nothing is attached to fulfilment),
\* pause() interrupts it or the source fails to load.  If it does not, the
\* element stays as it is and the promise is returned rejected: its
\* reaction runs when the calling task completes.
MediaPlay(a, allowed, k) ==
  IF Starts(a, allowed)
  THEN [a EXCEPT !.paused = FALSE,
                 !.time = IF @ = TrackLen * Unit THEN 0 ELSE @,
                 !.promise = k]
  ELSE a

\* The rejected promise of line 351 has a .catch handler: console.error.
RejectedCaught(s, allowed) ==
  IF allowed THEN s ELSE [s EXCEPT !.taskError = "logged"]

\* The rejected promise of line 451 has no handler: an unhandled rejection.
RejectedUncaught(s, allowed) ==
  IF allowed THEN s ELSE [s EXCEPT !.taskError = "unhandled"]

\* HTMLMediaElement.pause(): the element is paused and gives up its
\* pending promise.
MediaPause(a) == [a EXCEPT !.paused = TRUE, !.promise = "none"]

\* What pause() on a leaves to the host: if a was not paused and its play()
\* promise is pending, a task is queued that rejects it (AbortError).
Interrupted(s, a) ==
  IF ~a.paused /\ a.promise # "none"
  THEN [s EXCEPT !.aborts[a.promise] = @ + 1]
  ELSE s

\* An Audio object the script no longer refers to, that is silent and for
\* which the host has nothing left to deliver, is garbage.
Inert(a) == a.paused /\ a.time = 0 /\ (a.meta \/ a.error)

Collect(s) ==
  [s EXCEPT !.released =
      [a \in {b \in DOMAIN s.released : ~Inert(b)} |-> s.released[a]]]

\* The Audio objects of the heap: the one currentAudio refers to, and the
\* released ones.
Objects(s) ==
  (IF s.currentAudio # NoAudio THEN {<<"current", s.currentAudio>>} ELSE {})
  \cup {<<"released", a>> : a \in BagToSet(s.released)}

\* Object o of the heap becomes a.
Store(s, o, a) ==
  IF o[1] = "current"
  THEN [s EXCEPT !.currentAudio = a]
  ELSE [s EXCEPT !.released = (@ (-) SetToBag({o[2]})) (+) SetToBag({a})]

\* Mutant of stopAndHidePlayer: the handle is dropped without pause().
StopAndHidePlayerNoPause(s) ==
  LET s1 == IF s.currentAudio # NoAudio
            THEN [s EXCEPT
                   !.released = @ (+) SetToBag(
                       {[s.currentAudio EXCEPT !.time = 0]}),
                   !.currentAudio = NoAudio]
            ELSE s
  IN [s1 EXCEPT !.hidden = TRUE, !.isPlaying = FALSE,
                !.btnText = PlayGlyph, !.activeCard = NoCard]

\* stopAndHidePlayer, lines 326-336
StopAndHidePlayer(s) ==
  LET s1 == IF s.currentAudio # NoAudio
            THEN [Interrupted(s, s.currentAudio) EXCEPT
                   !.released = @ (+) SetToBag(
                       {[MediaPause(s.currentAudio) EXCEPT !.time = 0]}),
                   !.currentAudio = NoAudio]
            ELSE s
  IN [s1 EXCEPT !.hidden = TRUE, !.isPlaying = FALSE,
                !.btnText = PlayGlyph, !.activeCard = NoCard]

\* Mutant of updateProgress: the loop goes on while a track is loaded,
\* playing or not.
UpdateProgressWhileLoaded(s) ==
  IF s.currentAudio # NoAudio
  THEN LET a == s.currentAudio
           progress == IF Duration(a) = NaN THEN NaN
                       ELSE (a.time * 100) \div Duration(a)
       IN [s EXCEPT
            !.progressValue = IF progress = NaN \/ progress = 0
                              THEN 0 ELSE progress,
            !.timeDisplay = <<FormatTime(a.time), FormatTime(Duration(a))>>,
            !.rafPending = @ + 1]
  ELSE s

\* updateProgress, lines 376-383
UpdateProgress(s) ==
  IF s.currentAudio # NoAudio /\ s.isPlaying
  THEN LET a == s.currentAudio
           progress == IF Duration(a) = NaN THEN NaN
                       ELSE (a.time * 100) \div Duration(a)
       IN [s EXCEPT
            !.progressValue = IF progress = NaN \/ progress = 0
                              THEN 0 ELSE progress,
            !.timeDisplay = <<FormatTime(a.time), FormatTime(Duration(a))>>,
            !.rafPending = @ + 1]
  ELSE s

\* playCardMusic, lines 343-371.  allowed: whether the host lets play() start.
PlayCardMusic(s, card, allowed) ==
  LET s1 == [StopAndHidePlayer(s) EXCEPT !.activeCard = card]
      s2 == [RejectedCaught(s1, allowed) EXCEPT
              !.currentAudio = MediaPlay(NewAudio, allowed, "caught"),
              !.isPlaying = TRUE,
              !.hidden = FALSE,
              !.songTitle = LastSegment(MusicSrc(card)),
              !.btnText = PauseGlyph]
  IN UpdateProgress(s2)

\* Mutant of the close branch: classList.toggle("animate") for remove.
CloseCardToggle(s, card) ==
  LET s1 == StopAndHidePlayer(s)
  IN [s1 EXCEPT
       !.cls[card] = [animate |-> ~@.animate, showText |-> FALSE,
                      closing |-> TRUE],
       !.closeTimers[card] = @ + 1]

\* Mutant of the close branch: the audio is not stopped.
CloseCardKeepPlaying(s, card) ==
  [s EXCEPT
    !.cls[card] = [animate |-> FALSE, showText |-> FALSE, closing |-> TRUE],
    !.closeTimers[card] = @ + 1]

\* The close branch of handleCardClick, lines 409-421.
CloseCard(s, card) ==
  LET s1 == StopAndHidePlayer(s)
  IN [s1 EXCEPT
       !.cls[card] = [animate |-> FALSE, showText |-> FALSE, closing |-> TRUE],
       !.closeTimers[card] = @ + 1]

\* handleCardClick, lines 389-422
RECURSIVE HandleCardClick(_, _, _)
HandleCardClick(s, card, allowed) ==
  IF ~s.cls[card].animate
  THEN LET s1 == IF s.activeCard # NoCard /\ s.activeCard # card
                 THEN HandleCardClick(s, s.activeCard, allowed)
                 ELSE s
           s2 == IF HasMusic(card) THEN PlayCardMusic(s1, card, allowed)
                 ELSE s1
       IN [s2 EXCEPT !.cls[card].animate = TRUE,
                     !.showTimers[card] = @ + 1]
  ELSE CloseCard(s, card)

\* Mutant of the play/pause listener: pausing leaves the glyph as it is.
TogglePlayPauseStaleGlyph(s, allowed) ==
  IF s.currentAudio = NoAudio THEN s
  ELSE IF s.isPlaying
  THEN [Interrupted(s, s.currentAudio) EXCEPT
                 !.currentAudio = MediaPause(@),
                 !.isPlaying = FALSE]
  ELSE UpdateProgress(
         [RejectedUncaught(s, Starts(s.currentAudio, allowed)) EXCEPT
                   !.currentAudio = MediaPlay(@, allowed, "uncaught"),
                   !.isPlaying = TRUE,
                   !.btnText = PauseGlyph])

\* The click listener of playPauseBtn, lines 443-456
TogglePlayPause(s, allowed) ==
  IF s.currentAudio = NoAudio THEN s
  ELSE IF s.isPlaying
  THEN [Interrupted(s, s.currentAudio) EXCEPT
                 !.currentAudio = MediaPause(@),
                 !.isPlaying = FALSE,
                 !.btnText = PlayGlyph]
  ELSE UpdateProgress(
         [RejectedUncaught(s, Starts(s.currentAudio, allowed)) EXCEPT
                   !.currentAudio = MediaPlay(@, allowed, "uncaught"),
                   !.isPlaying = TRUE,
                   !.btnText = PauseGlyph])

\* The input listener of progressBar, lines 458-462; value: where the user
\* dragged the range input.  A duration of NaN or 0 is falsy.  The division
\* is exact: a duration is a whole number of seconds, Unit is 100.
SeekInput(s, value) ==
  LET s1 == [s EXCEPT !.progressValue = value]
  IN IF s.currentAudio # NoAudio /\ Duration(s.currentAudio) # NaN
        /\ Duration(s.currentAudio) # 0
     THEN [s1 EXCEPT !.currentAudio.time =
                        (value * Duration(s.currentAudio)) \div 100]
     ELSE s1

\* Mutant of the "ended" listener: it also forgets the active card.
OnEndedForgetCard(s) ==
  [s EXCEPT !.isPlaying = FALSE, !.btnText = PlayGlyph, !.activeCard = NoCard]

\* Mutant of the "ended" listener: it closes the player.
OnEndedAutoClose(s) == StopAndHidePlayer(s)

\* The "ended" listener, lines 364-367
OnEnded(s) == [s EXCEPT !.isPlaying = FALSE, !.btnText = PlayGlyph]

\* The "loadedmetadata" listener, lines 360-363: it reads the closure's
\* currentAudio, not the Audio object that raised the event; on null the
\* read of .duration throws.
OnLoadedMetadata(s) ==
  LET s1 == [s EXCEPT !.progressMax = "100"]
  IN IF s.currentAudio = NoAudio
     THEN [s1 EXCEPT !.taskError = "TypeError"]
     ELSE [s1 EXCEPT !.timeDisplay =
             <<"0:00", FormatTime(Duration(s.currentAudio))>>]

\* ------------------------------------------------------------- actions
RECURSIVE Sum(_, _)
Sum(f, S) ==
  IF S = {} THEN 0
  ELSE LET x == CHOOSE y \in S : TRUE IN f[x] + Sum(f, S \ {x})

WithinBounds(s) ==
  /\ s.rafPending <= MaxRaf
  /\ Sum(s.showTimers, Cards) + Sum(s.closeTimers, Cards)
       + s.aborts["caught"] + s.aborts["uncaught"] <= MaxTasks
  /\ BagCardinality(s.released) <= MaxReleased

\* A task starts: the outcome of the previous one is history.
Begin == [State EXCEPT !.taskError = "none"]

\* The task has run to completion: s0 is the state it leaves.
Apply(s0) ==
  \E s \in {Collect(s0)} :
     /\ WithinBounds(s)
     /\ cls' = s.cls
     /\ showTimers' = s.showTimers
     /\ closeTimers' = s.closeTimers
     /\ currentAudio' = s.currentAudio
     /\ released' = s.released
     /\ isPlaying' = s.isPlaying
     /\ activeCard' = s.activeCard
     /\ btnText' = s.btnText
     /\ hidden' = s.hidden
     /\ songTitle' = s.songTitle
     /\ progressMax' = s.progressMax
     /\ progressValue' = s.progressValue
     /\ timeDisplay' = s.timeDisplay
     /\ rafPending' = s.rafPending
     /\ aborts' = s.aborts
     /\ taskError' = s.taskError
     /\ UNCHANGED <<twVars, pageVars, overlayVars, scriptVars, effectVars>>

\* A click on a card (the delegated listener, lines 428-439).
CardClick(card, allowed) ==
  Apply(HandleCardClick(Begin, card, allowed))

\* A click on the play/pause button.
PlayPauseClick(allowed) == Apply(TogglePlayPause(Begin, allowed))

\* The user drags the range input.
Seek(value) == Apply(SeekInput(Begin, value))

\* The timer of lines 405-407 fires.
ShowTextTimer(card) ==
  /\ showTimers[card] > 0
  /\ Apply([Begin EXCEPT !.showTimers[card] = @ - 1,
                         !.cls[card].showText = TRUE])

\* The timer of lines 418-420 fires.
ClosingTimer(card) ==
  /\ closeTimers[card] > 0
  /\ Apply([Begin EXCEPT !.closeTimers[card] = @ - 1,
                         !.cls[card].closing = FALSE])

\* An animation frame runs one pending updateProgress callback.
Frame ==
  /\ rafPending > 0
  /\ Apply(UpdateProgress([Begin EXCEPT !.rafPending = @ - 1]))

\* The host has loaded the metadata of Audio object o and fires
\* loadedmetadata on it.
LoadedMetadata(o) ==
  /\ ~o[2].meta /\ ~o[2].error
  /\ Apply(OnLoadedMetadata(Store(Begin, o, [o[2] EXCEPT !.meta = TRUE])))

\* The host gives up loading the source of Audio object o (no such file,
\* no supported format): it rejects the pending play() promise
\* (NotSupportedError), whose reaction runs when this task completes.  The
\* script listens to no error event.
LoadFailed(o) ==
  /\ ~o[2].meta /\ ~o[2].error
  /\ Apply([Store(Begin, o, [o[2] EXCEPT !.error = TRUE, !.promise = "none"])
             EXCEPT !.taskError = IF o[2].promise = "caught" THEN "logged"
                                  ELSE IF o[2].promise = "uncaught"
                                  THEN "unhandled" ELSE "none"])

\* The track of Audio object o starts: the host fulfils the pending play()
\* promise, to which no reaction is attached.
Started(o) ==
  /\ o[2].meta /\ ~o[2].paused /\ o[2].promise # "none"
  /\ Apply(Store(Begin, o, [o[2] EXCEPT !.promise = "none"]))

\* The host rejects a play() promise that pause() interrupted, in a task of
\* its own: the .catch of line 351 logs it (console.error); the promise of
\* line 451 has no handler, an unhandled rejection.
Aborted(k) ==
  /\ aborts[k] > 0
  /\ Apply([Begin EXCEPT
             !.aborts[k] = @ - 1,
             !.taskError = IF k = "caught" THEN "logged" ELSE "unhandled"])

\* Playback of Audio object o, started, advances by one second, or by what
\* is left of the track.
Advance(o) ==
  /\ o[2].meta /\ ~o[2].paused /\ o[2].promise = "none"
  /\ o[2].time < Duration(o[2])
  /\ Apply(Store(Begin, o,
        [o[2] EXCEPT !.time = IF @ + Unit > Duration(o[2])
                              THEN Duration(o[2]) ELSE @ + Unit]))

\* Playback of Audio object o has reached the end: the host pauses the
\* element and fires ended on it.
Ended(o) ==
  /\ o[2].meta /\ ~o[2].paused /\ o[2].promise = "none"
  /\ o[2].time = Duration(o[2])
  /\ Apply(OnEnded(Store(Begin, o, MediaPause(o[2]))))

\* ----------------------------------------------------- the typewriter
\* A string is the sequence of its characters.
TYPING_SPEED == 120
DELETING_SPEED == 60
PAUSE_AFTER_TYPE == 1200
PAUSE_AFTER_DELETE == 500

\* The strings a data-texts list is made of.
Words == {<<>>, <<"A">>, <<"B">>, <<"H", "i">>}
TextLists == UNION {[1..n -> Words] : n \in 0..MaxTexts}
\* What the element shows before the effect starts.
InitialContents == {<<>>, <<"x">>}

TwState ==
  [texts |-> texts, loop |-> loop, started |-> started,
   textIndex |-> textIndex, charIndex |-> charIndex, isTyping |-> isTyping,
   textContent |-> textContent, tickDelay |-> tickDelay, pass |-> pass]

\* texts[textIndex] || ""
CurrentText(s) ==
  IF s.textIndex + 1 \in DOMAIN s.texts THEN s.texts[s.textIndex + 1]
  ELSE <<>>

\* currentText.substring(0, n)
Substring0(text, n) == SubSeq(text, 1, IF n < Len(text) THEN n ELSE Len(text))

\* Mutant of tick: the test of line 122 is missing, the chain never ends.
TickNoStop(s) ==
  LET currentText == CurrentText(s)
  IN IF s.isTyping
     THEN IF s.charIndex < Len(currentText)
          THEN [s EXCEPT
                 !.textContent = Append(@, currentText[s.charIndex + 1]),
                 !.charIndex = @ + 1,
                 !.tickDelay = TYPING_SPEED]
          ELSE [s EXCEPT
                 !.isTyping = FALSE,
                 !.tickDelay = PAUSE_AFTER_TYPE,
                 !.pass = Append(@, <<"typed", s.textIndex>>)]
     ELSE IF s.charIndex > 0
          THEN [s EXCEPT
                 !.textContent = Substring0(currentText, s.charIndex - 1),
                 !.charIndex = @ - 1,
                 !.tickDelay = DELETING_SPEED]
          ELSE LET next == (s.textIndex + 1) % Len(s.texts)
               IN [s EXCEPT
                    !.isTyping = TRUE,
                    !.textIndex = next,
                    !.tickDelay = PAUSE_AFTER_DELETE,
                    !.pass = IF next = 0 THEN <<>>
                             ELSE Append(@, <<"deleted", s.textIndex>>)]

\* Mutant of tick: line 122 without the test of loop, the chain ends at the
\* wrap whatever data-loop says.
TickStopsAtWrap(s) ==
  LET currentText == CurrentText(s)
  IN IF s.isTyping
     THEN IF s.charIndex < Len(currentText)
          THEN [s EXCEPT
                 !.textContent = Append(@, currentText[s.charIndex + 1]),
                 !.charIndex = @ + 1,
                 !.tickDelay = TYPING_SPEED]
          ELSE [s EXCEPT
                 !.isTyping = FALSE,
                 !.tickDelay = PAUSE_AFTER_TYPE,
                 !.pass = Append(@, <<"typed", s.textIndex>>)]
     ELSE IF s.charIndex > 0
          THEN [s EXCEPT
                 !.textContent = Substring0(currentText, s.charIndex - 1),
                 !.charIndex = @ - 1,
                 !.tickDelay = DELETING_SPEED]
          ELSE LET next == (s.textIndex + 1) % Len(s.texts)
                   s1 == [s EXCEPT
                           !.isTyping = TRUE,
                           !.textIndex = next,
                           !.pass = Append(@, <<"deleted", s.textIndex>>)]
               IN IF next = 0
                  THEN [s1 EXCEPT !.tickDelay = 0]
                  ELSE [s1 EXCEPT !.tickDelay = PAUSE_AFTER_DELETE]

\* tick, lines 104-126, run by the timer (or by initTypewriter, line 127).
\* pass records the string whose typing, or deletion, the tick completes; a
\* new pass of the list starts it afresh.
Tick(s) ==
  LET currentText == CurrentText(s)
  IN IF s.isTyping
     THEN IF s.charIndex < Len(currentText)
          THEN [s EXCEPT
                 !.textContent = Append(@, currentText[s.charIndex + 1]),
                 !.charIndex = @ + 1,
                 !.tickDelay = TYPING_SPEED]
          ELSE [s EXCEPT
                 !.isTyping = FALSE,
                 !.tickDelay = PAUSE_AFTER_TYPE,
                 !.pass = Append(@, <<"typed", s.textIndex>>)]
     ELSE IF s.charIndex > 0
          THEN [s EXCEPT
                 !.textContent = Substring0(currentText, s.charIndex - 1),
                 !.charIndex = @ - 1,
                 !.tickDelay = DELETING_SPEED]
          ELSE LET next == (s.textIndex + 1) % Len(s.texts)
                   s1 == [s EXCEPT
                           !.isTyping = TRUE,
                           !.textIndex = next,
                           !.pass = Append(@, <<"deleted", s.textIndex>>)]
               IN IF ~s.loop /\ next = 0
                  THEN [s1 EXCEPT !.tickDelay = 0]
                  ELSE [s1 EXCEPT
                         !.tickDelay = PAUSE_AFTER_DELETE,
                         !.pass = IF next = 0 THEN <<>> ELSE @]

\* initTypewriter, lines 88-128
InitTypewriter(s) ==
  LET s1 == [s EXCEPT !.started = TRUE]
  IN IF Len(s.texts) = 0 THEN s1 ELSE Tick(s1)

TwApply(s) ==
  /\ texts' = s.texts
  /\ loop' = s.loop
  /\ started' = s.started
  /\ textIndex' = s.textIndex
  /\ charIndex' = s.charIndex
  /\ isTyping' = s.isTyping
  /\ textContent' = s.textContent
  /\ tickDelay' = s.tickDelay
  /\ pass' = s.pass
  /\ UNCHANGED <<playerVars, overlayVars, scriptVars, effectVars>>

\* DOMContentLoaded, lines 130-132: initTypewriter runs for the element.
DomContentLoaded ==
  /\ ~started
  /\ TwApply(InitTypewriter(TwState))
  /\ UNCHANGED pageVars

\* The pending setTimeout(tick, ...) fires.
TickTimer ==
  /\ tickDelay # 0
  /\ TwApply(Tick([TwState EXCEPT !.tickDelay = 0]))
  /\ UNCHANGED pageVars

\* ------------------------------------- the page's .typewriter elements
\* An attribute: absent (getAttribute gives null), or its text, a sequence
\* of characters.
NoAttr == [present |-> FALSE, value |-> <<>>]
Attr(chars) == [present |-> TRUE, value |-> chars]

\* A character is a string of length one; a UTF-16 code unit that has no
\* such string here (the grave accent among them) is written "U+" and its
\* four hexadecimal digits.
Ascii ==
  <<" ", "!", "\"", "#", "$", "%", "&", "'", "(", ")", "*", "+", ",", "-",
    ".", "/", "0", "1", "2", "3", "4", "5", "6", "7", "8", "9", ":", ";",
    "<", "=", ">", "?", "@", "A", "B", "C", "D", "E", "F", "G", "H", "I",
    "J", "K", "L", "M", "N", "O", "P", "Q", "R", "S", "T", "U", "V", "W",
    "X", "Y", "Z", "[", "\\", "]", "^", "_", "U+0060", "a", "b", "c", "d", "e",
    "f", "g", "h", "i", "j", "k", "l", "m", "n", "o", "p", "q", "r", "s",
    "t", "u", "v", "w", "x", "y", "z", "{", "|", "}", "~">>

HexDigits ==
  <<"0", "1", "2", "3", "4", "5", "6", "7", "8", "9",
    "A", "B", "C", "D", "E", "F">>

Hex4(n) ==
  HexDigits[(n \div 4096) + 1] \o HexDigits[((n \div 256) % 16) + 1]
    \o HexDigits[((n \div 16) % 16) + 1] \o HexDigits[(n % 16) + 1]

\* String.fromCharCode(n), 0 <= n < 65536
CodeUnit(n) ==
  IF n = 9 THEN "\t"
  ELSE IF n = 10 THEN "\n"
  ELSE IF n = 12 THEN "\f"
  ELSE IF n = 13 THEN "\r"
  ELSE IF n >= 32 /\ n <= 126 THEN Ascii[n - 31]
  ELSE "U+" \o Hex4(n)

\* The value of a hexadecimal digit, either case; -1 for any other character.
HexValue(c) ==
  IF \E k \in 1..16 : HexDigits[k] = c
  THEN (CHOOSE k \in 1..16 : HexDigits[k] = c) - 1
  ELSE IF c \in {"a", "b", "c", "d", "e", "f"}
  THEN CASE c = "a" -> 10 [] c = "b" -> 11 [] c = "c" -> 12
         [] c = "d" -> 13 [] c = "e" -> 14 [] c = "f" -> 15
  ELSE -1

\* JSON (ECMA-404, which JSON.parse follows): the white space between
\* tokens, the characters a string may not hold unescaped (U+0000 to
\* U+001F), and the escapes of one character after the backslash.
JsonWhitespace == {" ", "\t", "\n", "\r"}
ControlChars == {CodeUnit(n) : n \in 0..31}
SimpleEscapes == {"\"", "\\", "/", "b", "f", "n", "r", "t"}
Unescape(e) ==
  CASE e = "\"" -> "\"" [] e = "\\" -> "\\" [] e = "/" -> "/"
    [] e = "b" -> CodeUnit(8) [] e = "f" -> "\f" [] e = "n" -> "\n"
    [] e = "r" -> "\r" [] e = "t" -> "\t"

\* The data-texts attributes a page is written with: absent, empty, the
\* lists [], ["A"], ["A","B"], the latter also with a blank after the comma
\* and with blanks and a line end around the brackets, three lists of one
\* string written with an escape (of the quote, of a code unit, of the line
\* end), and five that are not JSON: ['A'] (single quotes), ["A" (not
\* closed), A, a string with the escape of q, which is none, and a string
\* that holds a tab.
DataTexts ==
  { NoAttr,
    Attr(<<>>),
    Attr(<<"[", "]">>),
    Attr(<<"[", "\"", "A", "\"", "]">>),
    Attr(<<"[", "\"", "A", "\"", ",", "\"", "B", "\"", "]">>),
    Attr(<<"[", "\"", "A", "\"", ",", " ", "\"", "B", "\"", "]">>),
    Attr(<<" ", "[", " ", "\"", "A", "\"", " ", ",", "\"", "B", "\"", " ",
           "]", "\n">>),
    Attr(<<"[", "\"", "a", "\\", "\"", "b", "\"", "]">>),
    Attr(<<"[", "\"", "\\", "u", "0", "0", "4", "1", "\"", "]">>),
    Attr(<<"[", "\"", "a", "\\", "n", "b", "\"", "]">>),
    Attr(<<"[", "'", "A", "'", "]">>),
    Attr(<<"[", "\"", "A", "\"">>),
    Attr(<<"A">>),
    Attr(<<"[", "\"", "a", "\\", "q", "\"", "]">>),
    Attr(<<"[", "\"", "a", "\t", "b", "\"", "]">>) }

SyntaxError == [ok |-> FALSE, value |-> <<>>]
Parsed(list) == [ok |-> TRUE, value |-> list]

\* The first position of chars at or after i that holds no white space
\* (Len(chars) + 1 if there is none).
RECURSIVE SkipWhitespace(_, _)
SkipWhitespace(chars, i) ==
  IF i <= Len(chars) /\ chars[i] \in JsonWhitespace
  THEN SkipWhitespace(chars, i + 1)
  ELSE i

NoString == [ok |-> FALSE, value |-> <<>>, next |-> 0]

\* A JSON string whose opening quote is before position i, acc being the
\* characters read so far: the string it denotes and the position after
\* its closing quote, or no string.  An escape stands for one character,
\* \uXXXX for the code unit XXXX.
RECURSIVE ParseString(_, _, _)
ParseString(chars, i, acc) ==
  IF i > Len(chars) THEN NoString
  ELSE IF chars[i] = "\"" THEN [ok |-> TRUE, value |-> acc, next |-> i + 1]
  ELSE IF chars[i] \in ControlChars THEN NoString
  ELSE IF chars[i] # "\\" THEN ParseString(chars, i + 1, Append(acc, chars[i]))
  ELSE IF i + 1 > Len(chars) THEN NoString
  ELSE IF chars[i + 1] \in SimpleEscapes
  THEN ParseString(chars, i + 2, Append(acc, Unescape(chars[i + 1])))
  ELSE IF /\ chars[i + 1] = "u" /\ i + 5 <= Len(chars)
          /\ \A k \in 2..5 : HexValue(chars[i + k]) # -1
  THEN ParseString(chars, i + 6,
         Append(acc, CodeUnit(4096 * HexValue(chars[i + 2])
                                + 256 * HexValue(chars[i + 3])
                                + 16 * HexValue(chars[i + 4])
                                + HexValue(chars[i + 5]))))
  ELSE NoString

\* The elements of a JSON array of strings, from position i of chars (no
\* white space there), after acc: a string, then a comma and more, or the
\* closing bracket, with nothing but white space after it.
RECURSIVE ParseElements(_, _, _)
ParseElements(chars, i, acc) ==
  IF i > Len(chars) \/ chars[i] # "\"" THEN SyntaxError
  ELSE LET str == ParseString(chars, i + 1, <<>>)
           j == SkipWhitespace(chars, str.next)
           list == Append(acc, str.value)
       IN IF ~str.ok \/ j > Len(chars) THEN SyntaxError
          ELSE IF chars[j] = ","
          THEN ParseElements(chars, SkipWhitespace(chars, j + 1), list)
          ELSE IF chars[j] = "]" /\ SkipWhitespace(chars, j + 1) > Len(chars)
          THEN Parsed(list)
          ELSE SyntaxError

\* JSON.parse, line 89, of a text that is an array of strings or no JSON at
\* all: the array, or the SyntaxError it throws.  (A text that is JSON of
\* another shape, a number or an object, is none of the texts drawn.)
JsonParse(chars) ==
  LET i == SkipWhitespace(chars, 1)
      j == SkipWhitespace(chars, i + 1)
  IN IF i > Len(chars) \/ chars[i] # "[" THEN SyntaxError
     ELSE IF j <= Len(chars) /\ chars[j] = "]"
     THEN IF SkipWhitespace(chars, j + 1) > Len(chars) THEN Parsed(<<>>)
          ELSE SyntaxError
     ELSE ParseElements(chars, j, <<>>)

\* el.getAttribute("data-texts") || "[]", line 89
TextsSource(attr) ==
  IF ~attr.present \/ attr.value = <<>> THEN <<"[", "]">> ELSE attr.value

\* The listener's state: the closure of the element of part 2, the elements
\* done, the exception raised.
PageState == [tw |-> TwState, initRan |-> initRan, loadError |-> loadError]

\* document.querySelectorAll(".typewriter").forEach(initTypewriter), line
\* 131, from element k on: initTypewriter (lines 88-128) parses the
\* attribute, and an exception of JSON.parse ends the forEach and the
\* listener.  The ticks of the other elements write their own closures and
\* their own elements only.
RECURSIVE ForEachTypewriter(_, _)
ForEachTypewriter(p, k) ==
  IF k > Len(nodeList) THEN p
  ELSE LET parsed == JsonParse(TextsSource(nodeList[k]))
       IN IF ~parsed.ok THEN [p EXCEPT !.loadError = "SyntaxError"]
          ELSE ForEachTypewriter(
                 [p EXCEPT !.initRan = @ \cup {k},
                           !.tw = IF k = el
                                  THEN InitTypewriter(
                                         [@ EXCEPT !.texts = parsed.value])
                                  ELSE @],
                 k + 1)

\* DOMContentLoaded is dispatched: the listener of lines 130-132 runs.
PageLoaded ==
  /\ ~domReady
  /\ LET p == ForEachTypewriter(PageState, 1)
     IN /\ TwApply(p.tw)
        /\ initRan' = p.initRan
        /\ loadError' = p.loadError
  /\ domReady' = TRUE
  /\ UNCHANGED <<nodeList, el>>

\* -------------------------------------------------- the profile overlay
\* memberData, lines 490-541
MemberData ==
  [n \in {"Angelo Jesus Y. Caballero", "Alexandra Lykemae T. Concepcion",
          "Shairil Kriztel O. Capungcol", "Kurt Andrew F. Dapat",
          "Jovan C. Certifico"} |->
     CASE n = "Angelo Jesus Y. Caballero" ->
            [model |-> "model/source/Caballero.glb",
             role |-> "| FULL STACK DEVELOPER |",
             Bday |-> "03/18/2006",
             Contact |-> "ajcaballero@kld.edu.ph",
             Specialty |-> "FullStack",
             stats |-> [gender |-> "Male", age |-> "19",
                        height |-> "175cm", weight |-> "60kg"]]
       [] n = "Alexandra Lykemae T. Concepcion" ->
            [model |-> "model/source/Concepcion.glb",
             role |-> "| PROJECT MANAGER |",
             Bday |-> "09/08/2005",
             Contact |-> "alconcepcion@kld.edu.ph",
             Specialty |-> "Support specialist",
             stats |-> [gender |-> "Female", age |-> "20",
                        height |-> "150cm", weight |-> "50kg"]]
       [] n = "Shairil Kriztel O. Capungcol" ->
            [model |-> "model/source/Capungcol.glb",
             role |-> "| BACK END DEVELOPER |",
             Bday |-> "03/18/2006",
             Contact |-> "skcapungcol@kld.edu.ph",
             Specialty |-> "Back-end",
             stats |-> [gender |-> "Female", age |-> "20",
                        height |-> "149cm", weight |-> "49kg"]]
       [] n = "Kurt Andrew F. Dapat" ->
            [model |-> "model/source/Dapat.glb",
             role |-> "| DESIGNER |",
             Bday |-> "03/18/2006",
             Contact |-> "kadapat@kld.edu.ph",
             Specialty |-> "UI/UX Design",
             stats |-> [gender |-> "Male", age |-> "18",
                        height |-> "154cm", weight |-> "43kg"]]
       [] n = "Jovan C. Certifico" ->
            [model |-> "model/source/Certifico.glb",
             role |-> "| FRONT END DEVELOPER |",
             Bday |-> "03/18/2006",
             Contact |-> "jcertifico@kld.edu.ph",
             Specialty |-> "Front-end",
             stats |-> [gender |-> "Male", age |-> "19",
                        height |-> "162cm", weight |-> "53kg"]]]

\* memberData is an object literal: besides its five keys, a lookup finds
\* the properties it inherits from Object.prototype, eleven functions and
\* the prototype itself, all of them truthy and none with a property model,
\* role, Bday, Contact, Specialty or stats.
InheritedKeys ==
  {"constructor", "toString", "toLocaleString", "valueOf", "hasOwnProperty",
   "isPrototypeOf", "propertyIsEnumerable", "__proto__", "__defineGetter__",
   "__defineSetter__", "__lookupGetter__", "__lookupSetter__"}

\* The names the h3 of a .member-text element may hold.
Names == DOMAIN MemberData \cup InheritedKeys \cup {"Unknown Person"}

\* The .member-text elements a page may have: the text of the h3, as
\* written (padded with white space or not).
Members == {[text |-> n, padded |-> b] : n \in Names, b \in {FALSE}}
               \cup {[text |-> "Jovan C. Certifico", padded |-> TRUE]}

\* The page of the team: one .member-text for every record of memberData.
TeamPage == {[text |-> n, padded |-> FALSE] : n \in DOMAIN MemberData}

\* The pages with .member-text elements, at most MaxMembers of them.
MemberPages ==
  {page \in SUBSET Members : Cardinality(page) \in 1..MaxMembers}

\* nameElement.textContent.trim(), line 588
Trim(h3) == h3.text

OverlayState ==
  [profile |-> profile, overlayActive |-> overlayActive,
   overlayError |-> overlayError]

\* element.textContent = value, where the page has the element.
SetText(p, missing, element, field, value) ==
  IF element \in missing THEN p ELSE [p EXCEPT ![field] = value]

\* The four statements of lines 565-568 for a record's stats.
SetStats(p, missing, stats) ==
  SetText(SetText(SetText(SetText(p,
    missing, "stat-gender", "gender", stats.gender),
    missing, "stat-age", "age", stats.age),
    missing, "stat-height", "height", stats.height),
    missing, "stat-weight", "weight", stats.weight)

StatElements == {"stat-gender", "stat-age", "stat-height", "stat-weight"}

\* openOverlay, lines 547-571, on a page that lacks the elements of
\* missing.  profileName and profileRole are written unguarded: null throws.
\* An inherited property is truthy and has none of the record's
\* properties: they read as undefined, which a textContent shows as "", an
\* attribute as "undefined", and reading a property of the undefined stats
\* throws.
OpenOverlay(s, name, missing) ==
  LET known == name \in DOMAIN MemberData
      Throw(p) == [s EXCEPT !.profile = p, !.overlayError = "TypeError"]
  IN IF ~(known \/ name \in InheritedKeys) \/ "learnMoreOverlay" \in missing
     THEN s
     ELSE IF "profileName" \in missing THEN Throw(s.profile)
     ELSE LET p1 == [s.profile EXCEPT !.name = name]
          IN IF "profileRole" \in missing THEN Throw(p1)
             ELSE IF known
             THEN LET data == MemberData[name]
                      p2 == [p1 EXCEPT !.role = data.role]
                      p3 == SetText(p2, missing, "profileModel", "src",
                                    data.model)
                      p4 == SetText(p3, missing, "bio-bday", "bday",
                                    data.Bday)
                      p5 == SetText(p4, missing, "bio-contact", "contact",
                                    data.Contact)
                      p6 == SetText(p5, missing, "bio-special", "specialty",
                                    data.Specialty)
                  IN [s EXCEPT !.profile = SetStats(p6, missing, data.stats),
                               !.overlayActive = TRUE]
             ELSE LET p2 == [p1 EXCEPT !.role = ""]
                      p3 == SetText(p2, missing, "profileModel", "src",
                                    "undefined")
                      p4 == SetText(p3, missing, "bio-bday", "bday", "")
                      p5 == SetText(p4, missing, "bio-contact", "contact", "")
                      p6 == SetText(p5, missing, "bio-special", "specialty",
                                    "")
                  IN IF StatElements \subseteq missing
                     THEN [s EXCEPT !.profile = p6, !.overlayActive = TRUE]
                     ELSE Throw(p6)

\* closeOverlay, lines 576-578
CloseOverlay(s, missing) ==
  IF "learnMoreOverlay" \in missing THEN s
  ELSE [s EXCEPT !.overlayActive = FALSE]

OverlayApply(s) ==
  /\ profile' = s.profile
  /\ overlayActive' = s.overlayActive
  /\ overlayError' = s.overlayError
  /\ UNCHANGED <<playerVars, twVars, pageVars, scriptVars, effectVars>>

\* A click on a .member-text element of the page, lines 583-591.
MemberClick(m) ==
  /\ "member-text click" \in listeners
  /\ m \in DOMAIN memberVisible
  /\ OverlayApply(OpenOverlay([OverlayState EXCEPT !.overlayError = "none"],
                              Trim(m), absent))
  /\ UNCHANGED memberVisible

\* A click on the close button, lines 594-596.
CloseClick ==
  /\ "closeOverlay click" \in listeners
  /\ OverlayApply(CloseOverlay([OverlayState EXCEPT !.overlayError = "none"],
                               absent))
  /\ UNCHANGED memberVisible

\* memberObs (lines 234-236, createObserver with removeClassOnExit false,
\* lines 198-208) is notified about a .member-text element of the page.
MemberIntersection(m, isIntersecting) ==
  /\ "memberObs" \in listeners
  /\ m \in DOMAIN memberVisible
  /\ memberVisible' = IF isIntersecting
                      THEN [memberVisible EXCEPT ![m] = TRUE]
                      ELSE memberVisible
  /\ overlayError' = "none"
  /\ UNCHANGED <<profile, overlayActive, playerVars, twVars, pageVars,
                 scriptVars, effectVars>>

\* ------------------------------------------------ the script is loaded
\* The elements the script looks up by id or selector once, at load.
Elements ==
  {".grid-overlay", ".breathing-grid", "#core-values", ".motto",
   "music-player", "play-pause", "progress-bar", "time", "song-title",
   ".cards-container",
   "learnMoreOverlay", "closeOverlay", "profileModel", "profileName",
   "profileRole", "bio-bday", "bio-contact", "bio-special"}
  \cup StatElements

\* The evaluation of the script on a page that lacks the elements of
\* missing, controller after controller (lines 20-618): what it has
\* registered, and the exception that ended it, if any.  The page has
\* .member-text and .motto-word elements.
RunScript(missing) ==
  LET grid == IF {".grid-overlay", ".breathing-grid"} \cap missing = {}
              THEN {"mousemove", "updateMask"} ELSE {}
      upToObservers ==
        grid \cup {"DOMContentLoaded", "animateParallax", "fadeObs",
                   "memberObs", "teamObs", "boxObserver", "mvObserver"}
          \cup (IF "#core-values" \in missing THEN {} ELSE {"letterObserver"})
      playerOff == {"music-player", "play-pause"} \cap missing # {}
      player == IF playerOff THEN {} ELSE {"card click", "play-pause click"}
      overlay == {"member-text click"}
                   \cup (IF "closeOverlay" \in missing THEN {}
                         ELSE {"closeOverlay click"})
  IN IF ~playerOff /\ "progress-bar" \in missing
     THEN [listeners |-> upToObservers \cup player,
           scriptError |-> "TypeError"]
     ELSE LET upToOverlay ==
                upToObservers \cup player \cup overlay
                  \cup (IF playerOff THEN {} ELSE {"progress-bar input"})
          IN IF ".motto" \in missing
             THEN [listeners |-> upToOverlay, scriptError |-> "TypeError"]
             ELSE [listeners |-> upToOverlay \cup {"mottoObs"},
                   scriptError |-> "none"]

\* The browser evaluates the script.
ScriptRun ==
  /\ listeners = {}
  /\ listeners' = RunScript(absent).listeners
  /\ scriptError' = RunScript(absent).scriptError
  /\ UNCHANGED <<absent, playerVars, twVars, pageVars, overlayVars,
                 effectVars>>

\* ------------------------------- the player on a page that lacks widgets
\* The controller runs when #music-player and #play-pause exist (line 321);
\* #progress-bar, #time and #song-title are looked up (lines 312-314) and
\* used without a test.  A property access on null throws a TypeError,
\* which ends the handler where it stands: what was assigned stays.
Threw(s) == s.taskError = "TypeError"

\* updateProgress, lines 376-383, progressBar or timeDisplay being null
DegradedUpdateProgress(s, missing) ==
  IF s.currentAudio # NoAudio /\ s.isPlaying
  THEN IF "progress-bar" \in missing
       THEN [s EXCEPT !.taskError = "TypeError"]
       ELSE LET a == s.currentAudio
                progress == IF Duration(a) = NaN THEN NaN
                            ELSE (a.time * 100) \div Duration(a)
                s1 == [s EXCEPT !.progressValue =
                          IF progress = NaN \/ progress = 0 THEN 0
                          ELSE progress]
            IN IF "time" \in missing
               THEN [s1 EXCEPT !.taskError = "TypeError"]
               ELSE [s1 EXCEPT
                      !.timeDisplay =
                          <<FormatTime(a.time), FormatTime(Duration(a))>>,
                      !.rafPending = @ + 1]
  ELSE s

\* playCardMusic, lines 343-371, songTitle being null: line 356 throws
\* after the track is started and the player shown.
DegradedPlayCardMusic(s, card, allowed, missing) ==
  LET s1 == [StopAndHidePlayer(s) EXCEPT !.activeCard = card]
      s2 == [RejectedCaught(s1, allowed) EXCEPT
              !.currentAudio = MediaPlay(NewAudio, allowed, "caught"),
              !.isPlaying = TRUE,
              !.hidden = FALSE]
  IN IF "song-title" \in missing
     THEN [s2 EXCEPT !.taskError = "TypeError"]
     ELSE DegradedUpdateProgress(
            [s2 EXCEPT !.songTitle = LastSegment(MusicSrc(card)),
                       !.btnText = PauseGlyph], missing)

\* handleCardClick, lines 389-422: an exception of playCardMusic, also of
\* the one the recursive call runs, leaves lines 404-407 undone.
RECURSIVE DegradedHandleCardClick(_, _, _, _)
DegradedHandleCardClick(s, card, allowed, missing) ==
  IF ~s.cls[card].animate
  THEN LET s1 == IF s.activeCard # NoCard /\ s.activeCard # card
                 THEN DegradedHandleCardClick(s, s.activeCard, allowed,
                                              missing)
                 ELSE s
           s2 == IF Threw(s1) \/ ~HasMusic(card) THEN s1
                 ELSE DegradedPlayCardMusic(s1, card, allowed, missing)
       IN IF Threw(s2) THEN s2
          ELSE [s2 EXCEPT !.cls[card].animate = TRUE,
                          !.showTimers[card] = @ + 1]
  ELSE CloseCard(s, card)

\* The click listener of playPauseBtn, lines 443-456
DegradedTogglePlayPause(s, allowed, missing) ==
  IF s.currentAudio = NoAudio THEN s
  ELSE IF s.isPlaying
  THEN [Interrupted(s, s.currentAudio) EXCEPT
                 !.currentAudio = MediaPause(@),
                 !.isPlaying = FALSE,
                 !.btnText = PlayGlyph]
  ELSE DegradedUpdateProgress(
         [RejectedUncaught(s, Starts(s.currentAudio, allowed)) EXCEPT
                   !.currentAudio = MediaPlay(@, allowed, "uncaught"),
                   !.isPlaying = TRUE,
                   !.btnText = PauseGlyph], missing)

\* The "loadedmetadata" listener, lines 360-363, progressBar or
\* timeDisplay being null: line 361 or line 362 throws.
DegradedOnLoadedMetadata(s, missing) ==
  IF "progress-bar" \in missing
  THEN [s EXCEPT !.taskError = "TypeError"]
  ELSE LET s1 == [s EXCEPT !.progressMax = "100"]
       IN IF "time" \in missing \/ s.currentAudio = NoAudio
          THEN [s1 EXCEPT !.taskError = "TypeError"]
          ELSE [s1 EXCEPT !.timeDisplay =
                  <<"0:00", FormatTime(Duration(s.currentAudio))>>]

\* A click on a card, the listener of lines 428-439 being registered.
DegradedCardClick(card, allowed) ==
  /\ "card click" \in listeners
  /\ Apply(DegradedHandleCardClick(Begin, card, allowed, absent))

\* A click on the play/pause button, its listener being registered.
DegradedPlayPauseClick(allowed) ==
  /\ "play-pause click" \in listeners
  /\ Apply(DegradedTogglePlayPause(Begin, allowed, absent))

\* The user drags the range input, which the page has when its listener
\* is registered.
DegradedSeek(value) ==
  /\ "progress-bar input" \in listeners
  /\ Apply(SeekInput(Begin, value))

\* An animation frame runs one pending updateProgress callback.
DegradedFrame ==
  /\ rafPending > 0
  /\ Apply(DegradedUpdateProgress([Begin EXCEPT !.rafPending = @ - 1],
                                  absent))

\* The host has loaded the metadata of Audio object o and fires
\* loadedmetadata on it.  On a page without #song-title line 356 throws
\* in every playCardMusic, before lines 360-367 attach the listeners: no
\* Audio object of such a page has a listener, and the event changes
\* nothing but the element.
DegradedLoadedMetadata(o) ==
  /\ ~o[2].meta /\ ~o[2].error
  /\ Apply(IF "song-title" \in absent
           THEN Store(Begin, o, [o[2] EXCEPT !.meta = TRUE])
           ELSE DegradedOnLoadedMetadata(
                  Store(Begin, o, [o[2] EXCEPT !.meta = TRUE]), absent))

\* Playback of Audio object o has reached the end: the host pauses the
\* element and fires ended on it, which the listener of lines 364-367
\* hears on a page with #song-title only.
DegradedEnded(o) ==
  /\ o[2].meta /\ ~o[2].paused /\ o[2].promise = "none"
  /\ o[2].time = Duration(o[2])
  /\ Apply(IF "song-title" \in absent
           THEN Store(Begin, o, MediaPause(o[2]))
           ELSE OnEnded(Store(Begin, o, MediaPause(o[2]))))

\* ------------------------------------------------- formatTime, called
\* formatTime (lines 10-14) is called with the seconds drawn.
Format ==
  /\ formatted = ""
  /\ formatted' = FormatTime(secs * Unit)
  /\ UNCHANGED <<secs, spotVars, cascadeVars, playerVars, twVars, pageVars,
                 overlayVars, scriptVars>>

\* ------------------------------------------------------- the spotlight
\* The numbers of the spotlight are IEEE 754 doubles, computed exactly:
\* every operation yields the double nearest to the real result, a tie
\* going to the one with the even significand.
\*
\* A natural number is the sequence of its digits in base Base, the least
\* significant first, without leading zeros: zero is <<>>.
LimbBits == 15
Pow2 ==
  <<1, 2, 4, 8, 16, 32, 64, 128, 256, 512, 1024, 2048, 4096, 8192, 16384,
    32768>>
Base == Pow2[LimbBits + 1]

Min(a, b) == IF a < b THEN a ELSE b
Abs(n) == IF n < 0 THEN -n ELSE n

RECURSIVE BigTrim(_)
BigTrim(a) ==
  IF a = <<>> \/ a[Len(a)] # 0 THEN a
  ELSE BigTrim(SubSeq(a, 1, Len(a) - 1))

RECURSIVE BigFromInt(_)
BigFromInt(n) ==
  IF n = 0 THEN <<>> ELSE <<n % Base>> \o BigFromInt(n \div Base)

\* a + b
BigAdd(a, b) ==
  LET Limb(x, i) == IF i \in DOMAIN x THEN x[i] ELSE 0
      RECURSIVE AddLimbs(_, _)
      AddLimbs(i, carry) ==
        IF i > Len(a) /\ i > Len(b)
        THEN IF carry = 0 THEN <<>> ELSE <<carry>>
        ELSE LET t == Limb(a, i) + Limb(b, i) + carry
             IN <<t % Base>> \o AddLimbs(i + 1, t \div Base)
  IN AddLimbs(1, 0)

\* a - b, for a >= b
BigSub(a, b) ==
  LET RECURSIVE SubLimbs(_, _)
      SubLimbs(i, borrow) ==
        IF i > Len(a) THEN <<>>
        ELSE LET t == a[i] - (IF i \in DOMAIN b THEN b[i] ELSE 0) - borrow
             IN <<IF t < 0 THEN t + Base ELSE t>>
                  \o SubLimbs(i + 1, IF t < 0 THEN 1 ELSE 0)
  IN BigTrim(SubLimbs(1, 0))

\* -1, 0 or 1 as a is less than, equal to or greater than b
BigCmp(a, b) ==
  LET RECURSIVE CmpLimbs(_)
      CmpLimbs(i) ==
        IF i = 0 THEN 0
        ELSE IF a[i] # b[i] THEN (IF a[i] < b[i] THEN -1 ELSE 1)
        ELSE CmpLimbs(i - 1)
  IN IF Len(a) # Len(b) THEN (IF Len(a) < Len(b) THEN -1 ELSE 1)
     ELSE CmpLimbs(Len(a))

\* a * b: long multiplication, digit j of b times a at place j
BigMul(a, b) ==
  LET RECURSIVE MulLimbs(_, _, _)
      MulLimbs(d, i, carry) ==
        IF i > Len(a) THEN IF carry = 0 THEN <<>> ELSE <<carry>>
        ELSE LET t == a[i] * d + carry
             IN <<t % Base>> \o MulLimbs(d, i + 1, t \div Base)
      RECURSIVE MulFrom(_)
      MulFrom(j) ==
        IF j > Len(b) THEN <<>>
        ELSE BigAdd(IF b[j] = 0 THEN <<>>
                    ELSE [i \in 1..(j - 1) |-> 0] \o MulLimbs(b[j], 1, 0),
                    MulFrom(j + 1))
  IN IF a = <<>> THEN <<>> ELSE MulFrom(1)

\* a * 2^k
BigShl(a, k) ==
  BigMul(a, [i \in 1..(k \div LimbBits) |-> 0] \o <<Pow2[(k % LimbBits) + 1]>>)

\* a \div 2^k
BigShr(a, k) ==
  LET q == k \div LimbBits
      r == k % LimbBits
      Limb(i) == IF i \in DOMAIN a THEN a[i] ELSE 0
  IN BigTrim([i \in 1..(Len(a) - q) |->
                a[i + q] \div Pow2[r + 1]
                  + (Limb(i + q + 1) % Pow2[r + 1]) * Pow2[LimbBits - r + 1]])

\* the number of binary digits of a
BigBitLen(a) ==
  IF a = <<>> THEN 0
  ELSE LimbBits * (Len(a) - 1)
         + (CHOOSE n \in 1..LimbBits :
              Pow2[n] <= a[Len(a)] /\ a[Len(a)] < Pow2[n + 1])

\* a \div d and a % d, for 0 < d < Base: long division
BigDivLimb(a, d) ==
  LET RECURSIVE DivLimbs(_, _)
      DivLimbs(i, rem) ==
        IF i = 0 THEN [quot |-> <<>>, rem |-> rem]
        ELSE LET t == rem * Base + a[i]
                 rest == DivLimbs(i - 1, t % d)
             IN [quot |-> Append(rest.quot, t \div d), rem |-> rest.rem]
      r == DivLimbs(Len(a), 0)
  IN [quot |-> BigTrim(r.quot), rem |-> r.rem]

\* A real number (-1)^neg * m * 2^e, m a natural number, is the record
\* [neg, m, e].  A double is such a number whose m has Precision binary
\* digits, or fewer with e = MinExp (a subnormal); zero is Zero.  The sign
\* of zero and the overflow to Infinity are left out: no number of the
\* spotlight comes near 2^1024, and no code tells -0 from 0.
Precision == 53
MinExp == -1074
Zero == [neg |-> FALSE, m |-> <<>>, e |-> 0]

RealNeg(x) == IF x.m = <<>> THEN x ELSE [x EXCEPT !.neg = ~@]

\* x + y
RealAdd(x, y) ==
  IF x.m = <<>> THEN y
  ELSE IF y.m = <<>> THEN x
  ELSE LET e == Min(x.e, y.e)
           mx == BigShl(x.m, x.e - e)
           my == BigShl(y.m, y.e - e)
           c == BigCmp(mx, my)
       IN IF x.neg = y.neg THEN [neg |-> x.neg, m |-> BigAdd(mx, my), e |-> e]
          ELSE IF c = 0 THEN Zero
          ELSE IF c > 0 THEN [neg |-> x.neg, m |-> BigSub(mx, my), e |-> e]
          ELSE [neg |-> y.neg, m |-> BigSub(my, mx), e |-> e]

\* x * y
RealMul(x, y) ==
  IF x.m = <<>> \/ y.m = <<>> THEN Zero
  ELSE [neg |-> x.neg # y.neg, m |-> BigMul(x.m, y.m), e |-> x.e + y.e]

\* -1, 0 or 1 as x is less than, equal to or greater than y
RealCmp(x, y) ==
  LET d == RealAdd(x, RealNeg(y))
  IN IF d.m = <<>> THEN 0 ELSE IF d.neg THEN -1 ELSE 1

\* The double nearest to the real x, a tie going to the even significand:
\* the shift digits that do not fit are cut off, and the significand is
\* raised by one when they are more than half of its last place, or half
\* of it and the significand is odd.
Round(x) ==
  LET len == BigBitLen(x.m)
      shift == IF len - Precision > MinExp - x.e THEN len - Precision
               ELSE MinExp - x.e
      Bit(a, i) ==
        ((IF i \div LimbBits < Len(a) THEN a[(i \div LimbBits) + 1] ELSE 0)
           \div Pow2[(i % LimbBits) + 1]) % 2
      cut == BigSub(x.m, BigShl(BigShr(x.m, shift), shift))
      half == BigShl(<<1>>, shift - 1)
  IN IF x.m = <<>> THEN Zero
     ELSE IF shift <= 0
     THEN LET k == Min(Precision - len, x.e - MinExp)
          IN [neg |-> x.neg, m |-> BigShl(x.m, k), e |-> x.e - k]
     ELSE LET q == BigShr(x.m, shift)
              up == \/ BigCmp(cut, half) > 0
                    \/ BigCmp(cut, half) = 0 /\ Bit(q, 0) = 1
              m == IF up THEN BigAdd(q, <<1>>) ELSE q
          IN IF m = <<>> THEN Zero
             ELSE IF BigBitLen(m) > Precision
             THEN [neg |-> x.neg, m |-> BigShr(m, 1), e |-> x.e + shift + 1]
             ELSE [neg |-> x.neg, m |-> m, e |-> x.e + shift]

\* Extra binary digits a quotient or a root is computed to before it is
\* rounded; one more digit, the last, says whether digits beyond are not
\* all zero.
Guard == 64

\* A whole number as a double.
FromInt(n) == Round([neg |-> n < 0, m |-> BigFromInt(Abs(n)), e |-> 0])

\* The operators +, -, * of the language on doubles, and / by a whole
\* number d, 0 < d < Base.  A decimal literal is the double its quotient
\* is: 0.08 is 8 / 100.
DAdd(x, y) == Round(RealAdd(x, y))
DSub(x, y) == Round(RealAdd(x, RealNeg(y)))
DMul(x, y) == Round(RealMul(x, y))
DDiv(x, d) ==
  LET r == BigDivLimb(BigShl(x.m, Guard), d)
      m == BigAdd(BigShl(r.quot, 1), IF r.rem # 0 THEN <<1>> ELSE <<>>)
  IN Round([neg |-> x.neg, m |-> m, e |-> x.e - Guard - 1])

\* F of the value of v, v being computed once.
Let(v, F(_)) == CHOOSE r \in {F(x) : x \in {v}} : TRUE

\* Math.hypot(a, b) of whole numbers below Base.  The language leaves the
\* last digits of Math.hypot to the implementation; this is what V8
\* computes: with max the largest of the absolute values, the squares of
\* the values over max are summed in the order of the arguments, the
\* rounding error of each addition (compensation) being taken off the
\* next summand, and the result is the square root of the sum times max,
\* every operation rounded to a double.  The result may be one or two
\* doubles away from the double nearest to the real root.
\*
\* Kahan(i) is the sum and the compensation after the first i values;
\* Sqrt(x) is the double nearest to the square root of the double x > 0,
\* SqrtDigits finding the whole part of the root of n digit by digit in
\* base 32, root holding the digits above digit i.
Hypot(a, b) ==
  LET values == <<Abs(a), Abs(b)>>
      max == IF values[1] > values[2] THEN values[1] ELSE values[2]
      RECURSIVE Kahan(_)
      Kahan(i) ==
        IF i = 0 THEN [sum |-> Zero, compensation |-> Zero]
        ELSE
          Let(Kahan(i - 1), LAMBDA acc :
          Let(DDiv(FromInt(values[i]), max), LAMBDA n :
          Let(DSub(DMul(n, n), acc.compensation), LAMBDA summand :
          Let(DAdd(acc.sum, summand), LAMBDA preliminary :
            [sum |-> preliminary,
             compensation |->
               DSub(DSub(preliminary, acc.sum), summand)]))))
      RECURSIVE SqrtDigits(_, _, _)
      SqrtDigits(n, root, i) ==
        IF i < 0 THEN root
        ELSE LET With(d) == BigAdd(root, BigShl(BigFromInt(d), 5 * i))
                 Fits(d) == BigCmp(BigMul(With(d), With(d)), n) <= 0
                 digit == CHOOSE d \in 0..31 :
                            Fits(d) /\ (d < 31 => ~Fits(d + 1))
             IN SqrtDigits(n, With(digit), i - 1)
      Sqrt(x) ==
        LET odd == IF x.e % 2 = 0 THEN 0 ELSE 1
        IN Let(BigShl(x.m, Guard + odd), LAMBDA n :
           Let(SqrtDigits(n, <<>>, BigBitLen(n) \div 10), LAMBDA root :
             Round([neg |-> FALSE,
                    m |-> BigAdd(BigShl(root, 1),
                                 IF BigMul(root, root) # n
                                 THEN <<1>> ELSE <<>>),
                    e |-> (x.e - odd - Guard) \div 2 - 1])))
  IN IF max = 0 THEN Zero
     ELSE Let(Kahan(Len(values)).sum, LAMBDA sum :
          Let(Sqrt(sum), LAMBDA root : DMul(root, FromInt(max))))

\* The pointer events: where the pointer is (pageX, pageY) and how far it
\* moved since the event before (movementX, movementY: right and down,
\* left and up, or not at all), in whole px.
PointerEvents ==
  [pageX : {1, MaxPos}, pageY : {1, MaxPos},
   movement : {<<0, 0>>, <<6, 8>>, <<-3, 4>>, <<1, -1>>}]

SpotState ==
  [mouseX |-> mouseX, mouseY |-> mouseY, spotX |-> spotX, spotY |-> spotY,
   radius |-> radius, targetRadius |-> targetRadius, moves |-> moves]

\* handleMouse, lines 38-57.  The transforms and the camera orbit it writes
\* are functions of the event alone and are read by no code.
HandleMouse(s, e) ==
  Let(Hypot(e.movement[1], e.movement[2]), LAMBDA speed :
  Let(DMul(speed, DDiv(FromInt(5), 10)), LAMBDA half :
    [s EXCEPT !.mouseX = FromInt(e.pageX), !.mouseY = FromInt(e.pageY),
              !.targetRadius =
                 DAdd(FromInt(120),
                      IF RealCmp(half, FromInt(150)) <= 0 THEN half
                      ELSE FromInt(150)),
              !.moves = @ + 1]))

\* smoothed += (target - smoothed) * factor
Smooth(smoothed, target, factor) ==
  DAdd(smoothed, DMul(DSub(target, smoothed), factor))

\* Mutant of updateMask: -= for += on spotX, the spotlight backs away.
UpdateMaskAway(s) ==
  [s EXCEPT
    !.spotX = DSub(@, DMul(DSub(s.mouseX, @), DDiv(FromInt(8), 100))),
    !.spotY = Smooth(@, s.mouseY, DDiv(FromInt(8), 100)),
    !.radius = Smooth(@, s.targetRadius, DDiv(FromInt(1), 10))]

\* updateMask, lines 62-74: the factors are the literals 0.08 and 0.1.  The
\* custom properties it writes are these three variables, in px.
UpdateMask(s) ==
  [s EXCEPT
    !.spotX = Smooth(@, s.mouseX, DDiv(FromInt(8), 100)),
    !.spotY = Smooth(@, s.mouseY, DDiv(FromInt(8), 100)),
    !.radius = Smooth(@, s.targetRadius, DDiv(FromInt(1), 10))]

SpotApply(s) ==
  /\ mouseX' = s.mouseX
  /\ mouseY' = s.mouseY
  /\ spotX' = s.spotX
  /\ spotY' = s.spotY
  /\ radius' = s.radius
  /\ targetRadius' = s.targetRadius
  /\ moves' = s.moves
  /\ UNCHANGED <<fmtVars, cascadeVars, playerVars, twVars, pageVars,
                 overlayVars, scriptVars>>

\* The mousemove listener of line 76 is given the event e.
MouseMove(e) ==
  /\ moves < MaxMoves
  /\ SpotApply(HandleMouse(SpotState, e))

\* An animation frame runs updateMask (lines 73 and 77: the callback is
\* always pending).
MaskFrame == SpotApply(UpdateMask(SpotState))

\* ------------------------------------------------ the cascade observers
\* letterObserver (lines 253-263) over the spans of the core-values title,
\* mvObserver (lines 286-299) over the spans of one .mv-box's title, and
\* mottoObs (lines 601-614) over the .motto-word elements.
Cascades == {"letterObserver", "mvObserver", "mottoObs"}

\* The class the cascade gives its children.
CascadeClass(c) == IF c = "mottoObs" THEN "visible" ELSE "active"

\* The delay per child, in ms: i * 100, i * 400.
CascadeDelay(c) == IF c = "mottoObs" THEN 400 ELSE 100

Children == 1..NumChildren

\* The timers one entry into the viewport sets: child i (the i-th, from 1)
\* after (i - 1) * delay ms.
Batch(c) ==
  [i \in Children |-> [child |-> i, delay |-> (i - 1) * CascadeDelay(c)]]

CascadeState ==
  [reported |-> reported, targetActive |-> targetActive,
   childClass |-> childClass, batches |-> batches]

\* The observer's callback for one entry, lines 254-262, 287-298, 602-613.
OnIntersection(s, c, isIntersecting) ==
  IF isIntersecting
  THEN [s EXCEPT
         !.reported = "in",
         !.targetActive = IF c = "mvObserver" THEN TRUE ELSE @,
         !.batches = @ (+) SetToBag({Batch(c)})]
  ELSE [s EXCEPT
         !.reported = "out",
         !.targetActive = IF c = "mvObserver" THEN FALSE ELSE @,
         !.childClass = [i \in Children |-> FALSE]]

\* The first timer of batch b fires: () => span.classList.add(...).
OnCascadeTimer(s, b) ==
  [s EXCEPT
    !.childClass[Head(b).child] = TRUE,
    !.batches = (@ (-) SetToBag({b}))
                  (+) (IF Tail(b) = <<>> THEN EmptyBag
                       ELSE SetToBag({Tail(b)}))]

CascadeApply(s) ==
  /\ BagCardinality(s.batches) <= MaxBatches
  /\ reported' = s.reported
  /\ targetActive' = s.targetActive
  /\ childClass' = s.childClass
  /\ batches' = s.batches
  /\ UNCHANGED <<cascade, fmtVars, spotVars, playerVars, twVars, pageVars,
                 overlayVars, scriptVars>>

\* The observer's callback runs for an entry of its target: in the
\* viewport or out of it, whatever the entry before said and whatever
\* timers are pending.
Intersection(isIntersecting) ==
  CascadeApply(OnIntersection(CascadeState, cascade, isIntersecting))

\* A pending timer of the cascade fires: within a batch in the order of the
\* delays, across batches in any order.
CascadeTimer(b) ==
  /\ BagIn(b, batches)
  /\ CascadeApply(OnCascadeTimer(CascadeState, b))

\* ------------------------------------------------------- specification
PlayerInit ==
  /\ cls = [c \in Cards |->
              [animate |-> FALSE, showText |-> FALSE, closing |-> FALSE]]
  /\ showTimers = [c \in Cards |-> 0]
  /\ closeTimers = [c \in Cards |-> 0]
  /\ currentAudio = NoAudio
  /\ released = EmptyBag
  /\ isPlaying = FALSE
  /\ activeCard = NoCard
  /\ btnText = Html
  /\ hidden \in BOOLEAN
  /\ songTitle = Html
  /\ progressMax = Html
  /\ progressValue = 0
  /\ timeDisplay = <<Html>>
  /\ rafPending = 0
  /\ aborts = [k \in {"caught", "uncaught"} |-> 0]
  /\ taskError = "none"

\* A .typewriter element of the page, before DOMContentLoaded.
TwInit ==
  /\ texts \in TextLists
  /\ loop \in BOOLEAN
  /\ started = FALSE
  /\ textIndex = 0
  /\ charIndex = 0
  /\ isTyping = TRUE
  /\ textContent \in InitialContents
  /\ tickDelay = 0
  /\ pass = <<>>

\* A page without .typewriter elements.
NoTypewriter ==
  /\ TwInit
  /\ texts = <<>> /\ loop = FALSE /\ textContent = <<>>

\* No page around the element of part 2: its list is given parsed.
NoPage ==
  /\ nodeList = <<>>
  /\ el = 0
  /\ initRan = {}
  /\ loadError = "none"
  /\ domReady = FALSE

\* The .member-text elements of a page, none of them visible yet.
MemberTexts(page) == memberVisible = [m \in page |-> FALSE]

\* The overlay as the markup wrote it, closed.
OverlayAtRest ==
  /\ profile = [name |-> Html, role |-> Html, src |-> Html, bday |-> Html,
                contact |-> Html, specialty |-> Html, gender |-> Html,
                age |-> Html, height |-> Html, weight |-> Html]
  /\ overlayActive = FALSE
  /\ overlayError = "none"

OverlayInit == MemberTexts(TeamPage) /\ OverlayAtRest

\* A page that has every element the script looks up, the script loaded.
FullPage ==
  /\ absent = {}
  /\ listeners = RunScript({}).listeners
  /\ scriptError = "none"

\* formatTime is not looked at.
NoFormat == secs = 0 /\ formatted = ""

\* The spotlight as lines 27-32 leave it, in a window size px wide and
\* high.
SpotInit(size) ==
  LET centre == DDiv(FromInt(size), 2)
  IN /\ mouseX = centre /\ mouseY = centre
     /\ spotX = centre /\ spotY = centre
     /\ radius = Zero
     /\ targetRadius = Zero
     /\ moves = 0

\* Observer c before its first notification.
CascadeInit(c) ==
  /\ cascade = c
  /\ reported = "none"
  /\ targetActive = FALSE
  /\ childClass = [i \in Children |-> FALSE]
  /\ batches = EmptyBag

\* The effects are not looked at.
NoEffects == NoFormat /\ SpotInit(MaxPos) /\ CascadeInit("letterObserver")

\* The player: a page with the three cards and the player's widgets.
Init ==
  PlayerInit /\ NoTypewriter /\ NoPage /\ OverlayInit /\ FullPage /\ NoEffects

\* Every step is one task, in any order: a timer of a card, the user (a
\* click on a card, on the play/pause button, a drag of the range input) or
\* the host (an animation frame, the media, the rejection of a promise).
Next ==
  \/ \E card \in Cards : ShowTextTimer(card)
  \/ \E card \in Cards : ClosingTimer(card)
  \/ \E card \in Cards, allowed \in BOOLEAN : CardClick(card, allowed)
  \/ \E allowed \in BOOLEAN : PlayPauseClick(allowed)
  \/ \E value \in SeekValues : Seek(value)
  \/ Frame
  \/ \E o \in Objects(State) : LoadedMetadata(o)
  \/ \E o \in Objects(State) : LoadFailed(o)
  \/ \E o \in Objects(State) : Started(o)
  \/ \E k \in {"caught", "uncaught"} : Aborted(k)
  \/ \E o \in Objects(State) : Advance(o)
  \/ \E o \in Objects(State) : Ended(o)

Spec == Init /\ [][Next]_vars

\* The user stays with card 1: everything the player does for one card,
\* in any order.
SoloNext ==
  \/ \E card \in Cards : ShowTextTimer(card)
  \/ \E card \in Cards : ClosingTimer(card)
  \/ \E allowed \in BOOLEAN : CardClick(1, allowed)
  \/ \E allowed \in BOOLEAN : PlayPauseClick(allowed)
  \/ \E value \in SeekValues : Seek(value)
  \/ Frame
  \/ \E o \in Objects(State) : LoadedMetadata(o)
  \/ \E o \in Objects(State) : LoadFailed(o)
  \/ \E o \in Objects(State) : Started(o)
  \/ \E k \in {"caught", "uncaught"} : Aborted(k)
  \/ \E o \in Objects(State) : Advance(o)
  \/ \E o \in Objects(State) : Ended(o)

SoloSpec == Init /\ [][SoloNext]_vars

\* The user goes between the two cards that carry music and leaves the
\* player's controls alone.
SwitchNext ==
  \/ \E card \in Cards : ShowTextTimer(card)
  \/ \E card \in Cards : ClosingTimer(card)
  \/ \E card \in {1, 2}, allowed \in BOOLEAN : CardClick(card, allowed)
  \/ Frame
  \/ \E o \in Objects(State) : LoadedMetadata(o)
  \/ \E o \in Objects(State) : LoadFailed(o)
  \/ \E o \in Objects(State) : Started(o)
  \/ \E k \in {"caught", "uncaught"} : Aborted(k)
  \/ \E o \in Objects(State) : Advance(o)
  \/ \E o \in Objects(State) : Ended(o)

SwitchSpec == Init /\ [][SwitchNext]_vars

\* The user stays with card 1 and does not drag the range input; the host
\* schedules as it guarantees: a pending timer fires, a pending animation
\* frame callback runs.
LiveNext ==
  \/ \E card \in Cards : ShowTextTimer(card)
  \/ \E card \in Cards : ClosingTimer(card)
  \/ \E allowed \in BOOLEAN : CardClick(1, allowed)
  \/ \E allowed \in BOOLEAN : PlayPauseClick(allowed)
  \/ Frame
  \/ \E o \in Objects(State) : LoadedMetadata(o)
  \/ \E o \in Objects(State) : LoadFailed(o)
  \/ \E o \in Objects(State) : Started(o)
  \/ \E k \in {"caught", "uncaught"} : Aborted(k)
  \/ \E o \in Objects(State) : Advance(o)
  \/ \E o \in Objects(State) : Ended(o)

LiveSpec ==
  /\ Init /\ [][LiveNext]_vars
  /\ WF_vars(\E card \in Cards : ShowTextTimer(card))
  /\ WF_vars(\E card \in Cards : ClosingTimer(card))
  /\ WF_vars(Frame)

\* The user clicks the three cards at any pace and leaves the player's
\* controls alone: a click may come while timers of the cards are pending,
\* and the timers, the animation frames and the media events come in any
\* order.
RaceNext ==
  \/ \E card \in Cards : ShowTextTimer(card)
  \/ \E card \in Cards : ClosingTimer(card)
  \/ \E card \in Cards, allowed \in BOOLEAN : CardClick(card, allowed)
  \/ Frame
  \/ \E o \in Objects(State) : LoadedMetadata(o)
  \/ \E o \in Objects(State) : LoadFailed(o)
  \/ \E o \in Objects(State) : Started(o)
  \/ \E k \in {"caught", "uncaught"} : Aborted(k)
  \/ \E o \in Objects(State) : Advance(o)
  \/ \E o \in Objects(State) : Ended(o)

RaceSpec == Init /\ [][RaceNext]_vars

\* The typewriter: a page with one .typewriter element, whose cards are
\* left alone.  A timer that is pending fires.
TypewriterInit ==
  /\ PlayerInit /\ hidden /\ TwInit /\ NoPage /\ OverlayInit /\ FullPage
  /\ NoEffects

TypewriterNext ==
  \/ DomContentLoaded
  \/ TickTimer

TypewriterSpec ==
  TypewriterInit /\ [][TypewriterNext]_vars /\ WF_vars(TypewriterNext)

\* The page's typewriters: the .typewriter elements as the markup wrote
\* them, one of them followed tick by tick.
PageInit ==
  /\ PlayerInit /\ hidden
  /\ TwInit /\ texts = <<>>
  /\ nodeList \in UNION {[1..n -> DataTexts] : n \in 1..MaxEls}
  /\ el \in DOMAIN nodeList
  /\ initRan = {}
  /\ loadError = "none"
  /\ domReady = FALSE
  /\ OverlayInit /\ FullPage /\ NoEffects

PageNext ==
  \/ PageLoaded
  \/ TickTimer

PageSpec == PageInit /\ [][PageNext]_vars /\ WF_vars(PageNext)

\* The profile overlay and the .member-text elements that open it.
OverlaySpecInit ==
  /\ PlayerInit /\ hidden /\ NoTypewriter /\ NoPage /\ FullPage /\ NoEffects
  /\ OverlayAtRest
  /\ \E page \in MemberPages : MemberTexts(page)

OverlayNext ==
  \/ \E m \in Members : MemberClick(m)
  \/ CloseClick
  \/ \E m \in Members, isIntersecting \in BOOLEAN :
        MemberIntersection(m, isIntersecting)

OverlaySpec == OverlaySpecInit /\ [][OverlayNext]_vars

\* A page that lacks some of the elements and has one .member-text: the
\* script is loaded into it, then the .member-text scrolls into view and is
\* clicked, and the close button is used; the cards are left alone.
DegradedInit ==
  /\ PlayerInit /\ hidden /\ NoTypewriter /\ NoPage /\ OverlayAtRest
  /\ \E m \in Members : MemberTexts({m})
  /\ absent \in {a \in SUBSET Elements : Cardinality(a) <= MaxAbsent}
  /\ listeners = {}
  /\ scriptError = "none"
  /\ NoEffects

DegradedNext ==
  \/ ScriptRun
  \/ \E m \in Members : MemberClick(m)
  \/ CloseClick
  \/ \E m \in Members, isIntersecting \in BOOLEAN :
        MemberIntersection(m, isIntersecting)

DegradedSpec == DegradedInit /\ [][DegradedNext]_vars

\* The widgets of the player that the controller does not test for.
Widgets == {"progress-bar", "time", "song-title"}

\* A page whose markup hides the player and lacks some of its widgets (or
\* none), the script loaded.  The user stays with card 1: everything the
\* player does for one card, in any order.
WidgetInit ==
  /\ PlayerInit /\ hidden /\ NoTypewriter /\ NoPage /\ OverlayInit
  /\ absent \in {a \in SUBSET Widgets : Cardinality(a) <= MaxAbsent}
  /\ listeners = RunScript(absent).listeners
  /\ scriptError = RunScript(absent).scriptError
  /\ NoEffects

WidgetNext ==
  \/ \E card \in Cards : ShowTextTimer(card)
  \/ \E card \in Cards : ClosingTimer(card)
  \/ \E allowed \in BOOLEAN : DegradedCardClick(1, allowed)
  \/ \E allowed \in BOOLEAN : DegradedPlayPauseClick(allowed)
  \/ \E value \in SeekValues : DegradedSeek(value)
  \/ DegradedFrame
  \/ \E o \in Objects(State) : DegradedLoadedMetadata(o)
  \/ \E o \in Objects(State) : LoadFailed(o)
  \/ \E o \in Objects(State) : Started(o)
  \/ \E k \in {"caught", "uncaught"} : Aborted(k)
  \/ \E o \in Objects(State) : Advance(o)
  \/ \E o \in Objects(State) : DegradedEnded(o)

WidgetSpec == WidgetInit /\ [][WidgetNext]_vars

\* Everything but the effects, at rest.
PageAtRest ==
  PlayerInit /\ hidden /\ NoTypewriter /\ NoPage /\ OverlayInit /\ FullPage

\* formatTime, for every whole number of seconds up to MaxSeconds.
FormatInit ==
  /\ PageAtRest /\ SpotInit(MaxPos) /\ CascadeInit("letterObserver")
  /\ secs \in 0..MaxSeconds
  /\ formatted = ""

FormatSpec == FormatInit /\ [][Format]_vars

\* The spotlight: the pointer moves, the frames follow.
SpotlightInit ==
  /\ PageAtRest /\ NoFormat /\ CascadeInit("letterObserver")
  /\ \E size \in {MaxPos, 2 * MaxPos + 1} : SpotInit(size)

SpotlightNext ==
  \/ \E e \in PointerEvents : MouseMove(e)
  \/ MaskFrame

SpotlightSpec == SpotlightInit /\ [][SpotlightNext]_vars

\* One of the three cascades, its target scrolled in and out of view.
CascadeSpecInit ==
  /\ PageAtRest /\ NoFormat /\ SpotInit(MaxPos)
  /\ \E c \in Cascades : CascadeInit(c)

CascadeNext ==
  \/ \E isIntersecting \in BOOLEAN : Intersection(isIntersecting)
  \/ \E b \in BagToSet(batches) : CascadeTimer(b)

CascadeSpec ==
  /\ CascadeSpecInit /\ [][CascadeNext]_vars
  /\ WF_vars(\E b \in BagToSet(batches) : CascadeTimer(b))

\* ================================================================ claims
\* Steps of the player, named.
OpensCard(card) ==
  ~cls[card].animate /\ \E allowed \in BOOLEAN : CardClick(card, allowed)
ClosesCard(card) ==
  cls[card].animate /\ \E allowed \in BOOLEAN : CardClick(card, allowed)
TrackEnded == \E o \in Objects(State) : Ended(o)
Toggles(allowed) == PlayPauseClick(allowed)
Playing == currentAudio # NoAudio /\ isPlaying

\* ------------------------------------------------------------------ C1
\* C1: after any sequence of card clicks at most one track is live: every
\* Audio object other than the one currentAudio refers to has been paused
\* and rewound to 0 before it was let go, so none of them can be playing.
C1_OneLiveTrack ==
  \A a \in BagToSet(released) : a.paused /\ a.time = 0

\* A card's track plays while the Audio object of the card opened before it
\* is still in the host's hands.
C1_Witness ==
  /\ currentAudio # NoAudio /\ ~currentAudio.paused
  /\ released # EmptyBag

\* ------------------------------------------------------------------ C2
\* C2: opening a card Y closes every other card X (X loses animate) and
\* leaves Y the sole open card, whether or not X and Y carry data-music and
\* whatever was clicked before; hence at most one card is ever open.
C2_OpenClosesOthers ==
  [][\A y \in Cards : OpensCard(y) =>
        /\ cls'[y].animate
        /\ \A x \in Cards \ {y} : ~cls'[x].animate]_vars

\* ------------------------------------------------------------------ C3
\* What C3 compares: the track handle, isPlaying, the indicator, the
\* player's visibility, the active-card reference and the card's classes.
CloseOutcome(s, card) ==
  <<s.currentAudio, s.isPlaying, s.btnText, s.hidden, s.activeCard,
    s.cls[card].animate, s.cls[card].showText>>

\* C3: closing a card twice in a row leaves the same end state as closing
\* it once, from every reachable state and for every card.
C3_CloseIdempotent ==
  \A c \in Cards :
    CloseOutcome(CloseCard(CloseCard(State, c), c), c)
      = CloseOutcome(CloseCard(State, c), c)

\* A card that was closed before is open again, revealed, with its track
\* playing: closing it changes every field compared.
C3_Witness ==
  \E c \in Cards :
    /\ cls[c].animate /\ cls[c].showText /\ activeCard = c
    /\ Playing /\ ~currentAudio.paused /\ ~hidden
    /\ \E d \in Cards : cls[d].closing
    /\ CloseOutcome(CloseCard(State, c), c) # CloseOutcome(State, c)

\* ------------------------------------------------------------------ C4
\* C4: a click on a card that is open closes it: right after, the track is
\* paused, rewound and released, the player is hidden, isPlaying is false,
\* the indicator shows the play glyph, no card is active and the card has
\* neither animate nor show-text.
C4_ClickOnOpenCloses ==
  [][\A c \in Cards : ClosesCard(c) =>
        /\ currentAudio' = NoAudio
        /\ currentAudio # NoAudio =>
              LET a == [currentAudio EXCEPT !.paused = TRUE, !.time = 0,
                                            !.promise = "none"]
              IN Inert(a) \/ BagIn(a, released')
        /\ \A a \in BagToSet(released') : a.paused /\ a.time = 0
        /\ hidden' /\ ~isPlaying' /\ btnText' = PlayGlyph
        /\ activeCard' = NoCard
        /\ ~cls'[c].animate /\ ~cls'[c].showText]_vars

\* A card whose track was loaded has just been closed by a click.
C4_Witness ==
  \E c \in Cards :
    /\ HasMusic(c) /\ cls[c].closing /\ ~cls[c].animate
    /\ closeTimers[c] > 0
    /\ songTitle = LastSegment(MusicSrc(c))
    /\ currentAudio = NoAudio /\ hidden

\* ------------------------------------------------------------------ C5
\* The player state C5 compares: whether a track is loaded, isPlaying, the
\* active card, the indicator and the player's visibility.
PlayerOutcome(s) ==
  <<s.currentAudio # NoAudio, s.isPlaying, s.activeCard, s.btnText, s.hidden>>

\* C5: when the host rejects a playback start, on either path that starts
\* playback (opening a card, resuming with the play/pause button), the
\* rejection is caught and logged, never left unhandled, and the player
\* state is what it would have been had the start been accepted.
C5_RejectionCaught ==
  /\ taskError # "unhandled"
  /\ \A c \in Cards :
        PlayerOutcome(HandleCardClick(Begin, c, FALSE))
          = PlayerOutcome(HandleCardClick(Begin, c, TRUE))
  /\ PlayerOutcome(TogglePlayPause(Begin, FALSE))
        = PlayerOutcome(TogglePlayPause(Begin, TRUE))

\* ------------------------------------------------------------------ C6
\* C6 as claimed: the track-ended notification empties the player state:
\* no active card, no track handle, isPlaying false.
C6_EndedResetsAll ==
  [][TrackEnded =>
        activeCard' = NoCard /\ currentAudio' = NoAudio /\ ~isPlaying']_vars

\* C6 as amended: closing a card empties the player state (no active
\* card, no track handle, isPlaying false); the track-ended notification
\* resets isPlaying alone and keeps the active card and the track handle.
C6_ResetOnCloseOnly ==
  [][/\ \A c \in Cards : ClosesCard(c) =>
           activeCard' = NoCard /\ currentAudio' = NoAudio /\ ~isPlaying'
     /\ TrackEnded =>
           /\ ~isPlaying'
           /\ activeCard' = activeCard /\ activeCard' # NoCard
           /\ currentAudio' # NoAudio]_vars

\* The track of the active card has played to its end.
C6_Witness ==
  /\ activeCard # NoCard /\ ~isPlaying
  /\ currentAudio # NoAudio
  /\ currentAudio.paused /\ currentAudio.time = TrackLen * Unit

\* ------------------------------------------------------------------ C7
\* C7: the track-ended notification sets isPlaying to false and resets the
\* indicator, and nothing else: the track handle, the active card, the
\* player's visibility and every card's classes stay as they are.
C7_EndedFrame ==
  [][TrackEnded =>
        /\ ~isPlaying' /\ btnText' = PlayGlyph
        /\ currentAudio' = MediaPause(currentAudio)
        /\ UNCHANGED <<activeCard, hidden, cls, showTimers, closeTimers,
                       released, songTitle, progressMax, progressValue,
                       timeDisplay, rafPending>>]_vars

\* A track has ended and its card is still open, the player still shown.
C7_Witness ==
  \E c \in Cards :
    /\ activeCard = c /\ cls[c].animate /\ ~hidden
    /\ ~isPlaying /\ btnText = PlayGlyph
    /\ currentAudio # NoAudio /\ currentAudio.time = TrackLen * Unit
    /\ currentAudio.paused

\* ------------------------------------------------------------------ C8
\* C8: the play/pause button changes nothing when no track is loaded; with
\* a track loaded it flips isPlaying and pauses or (the host allowing)
\* resumes the track; and once the script has written the indicator, it
\* shows the pause glyph exactly when isPlaying is true.
C8_Toggle ==
  /\ [](/\ isPlaying => btnText = PauseGlyph
        /\ btnText # Html => (btnText = PauseGlyph <=> isPlaying))
  /\ [][\A allowed \in BOOLEAN : Toggles(allowed) =>
          IF currentAudio = NoAudio
          THEN UNCHANGED <<cls, showTimers, closeTimers, currentAudio,
                           released, isPlaying, activeCard, btnText, hidden,
                           songTitle, progressMax, progressValue,
                           timeDisplay, rafPending>>
          ELSE /\ isPlaying' = ~isPlaying
               /\ isPlaying => currentAudio'.paused
               /\ (~isPlaying /\ Starts(currentAudio, allowed)) =>
                     ~currentAudio'.paused]_vars

\* A track that had played for a second, before any animation frame showed
\* it, has been paused with the button.
C8_Witness ==
  /\ currentAudio # NoAudio /\ currentAudio.paused
  /\ currentAudio.time = Unit /\ currentAudio.time < TrackLen * Unit
  /\ progressValue = 0
  /\ ~isPlaying /\ btnText = PlayGlyph /\ ~hidden

\* ------------------------------------------------------------------ C9
\* C9: the progress loop ends by itself: a progress callback that runs
\* while nothing plays writes neither the progress value nor the time label
\* and does not reschedule itself; so if playback stays stopped (paused,
\* ended or closed), eventually no progress callback is pending, for good.
C9_LoopTerminates ==
  /\ [][(Frame /\ ~Playing) =>
          /\ rafPending' = rafPending - 1
          /\ UNCHANGED <<progressValue, timeDisplay>>]_vars
  /\ (<>[](~Playing)) => <>[](rafPending = 0)

\* The loop has shown a position past the start, playback has stopped and
\* no callback is pending any more.
C9_Witness ==
  /\ rafPending = 0 /\ ~isPlaying
  /\ currentAudio # NoAudio
  /\ timeDisplay = <<FormatTime(Unit), FormatTime(TrackLen * Unit)>>

\* ----------------------------------------------------------------- C10
\* The typewriter of a non-looping, non-empty list has stopped.
Finished == started /\ texts # <<>> /\ ~loop /\ tickDelay = 0

\* Every string typed, then deleted, once, in the order of the list.
FullPass ==
  [k \in 1..(2 * Len(texts)) |->
     <<IF k % 2 = 1 THEN "typed" ELSE "deleted", (k - 1) \div 2>>]

\* C10: with a non-empty list and loop=false the timer chain ends: every
\* string is typed one character per tick, then deleted one character per
\* tick, exactly once and in list order; when the index wraps to the first
\* string no tick is scheduled and the text is never written again.
C10_TypewriterTerminates ==
  /\ (~loop /\ texts # <<>>) => <>Finished
  /\ [](Finished => /\ pass = FullPass
                    /\ textIndex = 0 /\ charIndex = 0 /\ isTyping)
  /\ [][Finished => UNCHANGED twVars]_vars
  /\ [][/\ charIndex' = charIndex + 1 =>
             /\ isTyping /\ isTyping'
             /\ textContent' =
                   Append(textContent, CurrentText(TwState)[charIndex'])
        /\ charIndex' = charIndex - 1 =>
             /\ ~isTyping /\ ~isTyping'
             /\ textContent' = SubSeq(CurrentText(TwState), 1, charIndex')
        /\ charIndex' \in {charIndex - 1, charIndex, charIndex + 1}
        /\ charIndex' = charIndex => textContent' = textContent]_vars

\* The list ["Hi"] has been typed and deleted, and the chain has ended.
C10_Witness ==
  /\ Finished
  /\ texts = << <<"H", "i">> >>
  /\ textContent = <<>>
  /\ pass = << <<"typed", 0>>, <<"deleted", 0>> >>

\* ----------------------------------------------------------------- C11
\* The typewriter of a looping, non-empty list is running.
Looping == started /\ loop /\ texts # <<>>

\* String i (0-based) of the list has just been typed to its last character.
Typed(i) ==
  /\ started /\ i < Len(texts)
  /\ textIndex = i /\ ~isTyping /\ charIndex = Len(texts[i + 1])

\* C11 as claimed: with a non-empty list and loop=true a tick is always
\* pending, and every string of the list is fully displayed infinitely
\* often (the element shows exactly that string), in list order with
\* wrap-around.
C11_CyclesForever ==
  /\ [](Looping => tickDelay # 0)
  /\ \A i \in 0..(MaxTexts - 1) :
        []((loop /\ i < Len(texts))
             => <>(Typed(i) /\ textContent = texts[i + 1]))
  /\ [][(Looping /\ textIndex' # textIndex)
          => textIndex' = (textIndex + 1) % Len(texts)]_vars

\* C11 as amended: a tick is always pending and every string is fully typed
\* infinitely often, in list order with wrap-around; what the element shows
\* then is that string, preceded by the text the element held at
\* initialization as long as no character has been deleted; with a
\* non-empty string in the list every string is shown exactly, infinitely
\* often.
C11_CyclesAfterInitialText ==
  /\ [](Looping => tickDelay # 0)
  /\ \A i \in 0..(MaxTexts - 1) :
        []((loop /\ i < Len(texts)) => <>Typed(i))
  /\ [](\A i \in 0..(MaxTexts - 1) : (loop /\ Typed(i)) =>
          \E initial \in InitialContents :
             textContent = initial \o texts[i + 1])
  /\ \A i \in 0..(MaxTexts - 1) :
        []((loop /\ i < Len(texts) /\ \E k \in DOMAIN texts : texts[k] # <<>>)
             => <>(Typed(i) /\ textContent = texts[i + 1]))
  /\ [][(Looping /\ textIndex' # textIndex)
          => textIndex' = (textIndex + 1) % Len(texts)]_vars

\* The list ["A","B"] has been typed and deleted once and the index has
\* wrapped to "A": the next pass is scheduled.
C11_Witness ==
  /\ Looping /\ texts = << <<"A">>, <<"B">> >>
  /\ textIndex = 0 /\ isTyping /\ charIndex = 0
  /\ textContent = <<>>
  /\ tickDelay = PAUSE_AFTER_DELETE

\* ----------------------------------------------------------------- C12
\* The data-texts of element k is not a serialized array.
Malformed(k) == ~JsonParse(TextsSource(nodeList[k])).ok

\* C12: a typewriter element whose data-texts is malformed is treated as
\* having an empty list: initialization raises no error, the effect is off
\* for that element (no list, no text written, no tick scheduled), and the
\* other typewriter elements of the page are initialized all the same.
C12_MalformedIsEmpty ==
  domReady =>
    /\ loadError = "none"
    /\ initRan = DOMAIN nodeList
    /\ Malformed(el) => (texts = <<>> /\ tickDelay = 0 /\ charIndex = 0)

\* ----------------------------------------------------------------- C13
\* C13: openOverlay(name) changes the overlay exactly when name is one of
\* the five keys of the table: then the name, role, birthday, contact,
\* specialty, the four stats and the model source all come from that one
\* record and the overlay is active ("Angelo Jesus Y. Caballero" gives role
\* "| FULL STACK DEVELOPER |" and age "19"); for every other name, whatever
\* was opened and closed before, no field changes and the active flag keeps
\* its value.
C13_OpenOverlay ==
  [][\A m \in Members : MemberClick(m) =>
        LET name == m.text
        IN IF name \in DOMAIN MemberData
           THEN /\ overlayActive'
                /\ profile'.name = name
                /\ profile'.role = MemberData[name].role
                /\ profile'.src = MemberData[name].model
                /\ profile'.bday = MemberData[name].Bday
                /\ profile'.contact = MemberData[name].Contact
                /\ profile'.specialty = MemberData[name].Specialty
                /\ <<profile'.gender, profile'.age, profile'.height,
                      profile'.weight>>
                     = <<MemberData[name].stats.gender,
                         MemberData[name].stats.age,
                         MemberData[name].stats.height,
                         MemberData[name].stats.weight>>
                /\ name = "Angelo Jesus Y. Caballero" =>
                      /\ profile'.role = "| FULL STACK DEVELOPER |"
                      /\ profile'.age = "19"
           ELSE UNCHANGED <<profile, overlayActive>>]_vars

\* ----------------------------------------------------------------- C14
\* C14: whatever elements the page lacks, every controller degrades to a
\* no-op and nothing throws: not the evaluation of the script, not a
\* listener that runs later.
C14_NeverThrows ==
  /\ scriptError = "none"
  /\ overlayError = "none"

\* ----------------------------------------------------------------- C15
Digit(n) == <<"0", "1", "2", "3", "4", "5", "6", "7", "8", "9">>[n + 1]

\* The decimal numeral of n, digit by digit.
RECURSIVE Decimal(_)
Decimal(n) == IF n < 10 THEN Digit(n) ELSE Decimal(n \div 10) \o Digit(n % 10)

\* C15: for every whole number of seconds s >= 0, formatTime(s) is the
\* decimal numeral of floor(s / 60), a colon, and s mod 60 in exactly two
\* digits; the minutes are never wrapped into hours (0 gives "0:00", 65
\* "1:05", 599 "9:59", 3600 "60:00").
C15_FormatTime ==
  formatted # "" =>
    /\ formatted = Decimal(secs \div 60) \o ":"
                     \o Digit((secs % 60) \div 10)
                     \o Digit((secs % 60) % 10)
    /\ secs = 0 => formatted = "0:00"
    /\ secs = 65 => formatted = "1:05"
    /\ secs = 599 => formatted = "9:59"
    /\ secs = 3600 => formatted = "60:00"

\* An hour has been formatted: sixty minutes, seconds padded.
C15_Witness == secs = 3600 /\ formatted = "60:00"

\* ----------------------------------------------------------------- C16
\* The square of the distance between the smoothed position and the target,
\* a real number.
Dist2(s) ==
  LET dx == RealAdd(s.mouseX, RealNeg(s.spotX))
      dy == RealAdd(s.mouseY, RealNeg(s.spotY))
  IN RealAdd(RealMul(dx, dx), RealMul(dy, dy))

\* after lies between smoothed and target, ends included.
Between(smoothed, after, target) ==
  \/ RealCmp(smoothed, after) <= 0 /\ RealCmp(after, target) <= 0
  \/ RealCmp(target, after) <= 0 /\ RealCmp(after, smoothed) <= 0

\* The update leaves neither axis past the target.
NoOvershoot(s) ==
  /\ Between(s.spotX, UpdateMask(s).spotX, s.mouseX)
  /\ Between(s.spotY, UpdateMask(s).spotY, s.mouseY)

\* The unit in the last place of the double x: the distance to the next
\* double away from zero.
Ulp(x) ==
  [neg |-> FALSE, m |-> <<1>>, e |-> IF x.m = <<>> THEN MinExp ELSE x.e]

\* The target is more than 6 units in the last place of smoothed away
\* from smoothed.
Far(smoothed, target) ==
  LET gap == RealAdd(target, RealNeg(smoothed))
  IN RealCmp([gap EXCEPT !.neg = FALSE],
             RealMul([neg |-> FALSE, m |-> <<6>>, e |-> 0], Ulp(smoothed))) > 0

\* C16 as claimed: with the pointer where it is, an animation-frame update
\* of the spotlight never increases the distance between the smoothed
\* position and the target, strictly decreases it while it is not zero, and
\* carries the smoothed position past the target on neither axis.
C16_Smoothing ==
  LET s == SpotState
  IN /\ RealCmp(Dist2(UpdateMask(s)), Dist2(s)) <= 0
     /\ Dist2(s) # Zero => RealCmp(Dist2(UpdateMask(s)), Dist2(s)) < 0
     /\ NoOvershoot(s)

\* C16 as amended: the update never increases the distance and passes the
\* target on neither axis; it strictly decreases the distance while on
\* some axis the target is more than 6 units in the last place of the
\* smoothed coordinate away; once it is within 6 on both axes the update
\* leaves the smoothed position where it is, short of the target.
C16_SmoothingToRest ==
  LET s == SpotState
      after == UpdateMask(s)
      far == Far(spotX, mouseX) \/ Far(spotY, mouseY)
  IN /\ RealCmp(Dist2(after), Dist2(s)) <= 0
     /\ Between(spotX, after.spotX, mouseX)
     /\ Between(spotY, after.spotY, mouseY)
     /\ far => RealCmp(Dist2(after), Dist2(s)) < 0
     /\ ~far => (after.spotX = spotX /\ after.spotY = spotY)

\* Frames have run, and the spotlight has come to rest on both axes, short
\* of the pointer on one of them.
C16_Witness ==
  /\ radius # Zero
  /\ spotX # mouseX
  /\ UpdateMask(SpotState).spotX = spotX
  /\ UpdateMask(SpotState).spotY = spotY

\* ----------------------------------------------------------------- C17
\* C17: in the cascades the reversal on exit is immediate and complete:
\* from the moment the target is reported as leaving the viewport until it
\* is next reported as entering, no child carries the cascade's class,
\* whatever timers of the entry before were still pending.
C17_ReversalComplete ==
  reported = "out" => \A i \in Children : ~childClass[i]

\* ----------------------------------------------------------------- C18
\* C18: a card carries show-text only while it is open: however the clicks
\* on the cards interleave with the 1200 ms reveal timers, a card that has
\* show-text has animate.
C18_ShowTextOnlyOpen ==
  \A c \in Cards : cls[c].showText => cls[c].animate

\* ----------------------------------------------------------------- C19
\* C19: at most one progress callback is pending at any time, however card
\* opens, card closes, play/pause clicks and animation frames interleave.
C19_OneFramePending == rafPending <= 1

\* ----------------------------------------------------------------- C20
\* C20: a loadedmetadata for a track that has been released (its card
\* closed, or another card opened, before the metadata arrived) is
\* harmless: the listener does not read a property of an empty track handle
\* and does not write the time label from another track's duration.
C20_LateMetadataHarmless ==
  [][\A o \in Objects(State) :
        (o[1] = "released" /\ LoadedMetadata(o)) =>
           /\ taskError' # "TypeError"
           /\ \/ timeDisplay' = timeDisplay
              \/ timeDisplay' = <<"0:00", FormatTime(TrackLen * Unit)>>]_vars

\* ----------------------------------------------------------------- C21
\* C21: after every completed event handler of the player its state fields
\* are mutually consistent: the track handle is non-null exactly when the
\* active-card reference is non-null, which is exactly when the player is
\* not hidden; isPlaying implies a non-null track handle; and a non-null
\* active card has the class animate.  A handler that a TypeError ended has
\* not completed: the state it leaves is looked at after the next handler
\* that returns.
C21_Consistent ==
  taskError # "TypeError" =>
    /\ (currentAudio # NoAudio) <=> (activeCard # NoCard)
    /\ (activeCard # NoCard) <=> ~hidden
    /\ isPlaying => currentAudio # NoAudio
    /\ activeCard # NoCard => cls[activeCard].animate

\* ----------------------------------------------------------------- C22
\* C22: a card is never both open and closing: however the clicks on the
\* cards interleave with the 1000 ms closing timers, no card carries the
\* classes animate and closing at the same time.
C22_NotOpenAndClosing ==
  \A c \in Cards : ~(cls[c].animate /\ cls[c].closing)
====
